---- MODULE Spec2Model ----
(***************************************************************************)
(* Verification model of the CrowdSurfer edge agent:                       *)
(*   - the persistent queue (telemetry_queue.py, QueueManager),            *)
(*   - batch sync (telemetry_agent.py, sync_queued_analytics),             *)
(*   - the device identity, the heartbeat's requests and its handling of   *)
(*     credentials and revocation (config.py, management_agent.py,         *)
(*     telemetry_agent.py),                                                *)
(*   - the reconciliation of the radio network name                        *)
(*     (management_agent.py, apply_ssid_configuration).                    *)
(*                                                                         *)
(* Specifications:                                                         *)
(*   Spec      one caller drives the queue API, every call runs to its end *)
(*             before the next one starts, the store answers every         *)
(*             statement;                                                  *)
(*   SpecConc  two processes run enqueue_* statement by statement (each    *)
(*             sqlite3.connect block is its own transaction), and a        *)
(*             statement may fail;                                         *)
(*   SpecSync  the program as deployed: the portal enqueues submissions,   *)
(*             a collector enqueues analytics, the telemetry agent runs    *)
(*             sync_queued_analytics statement by statement;               *)
(*   SpecHB    heartbeats of the management agent and of the telemetry     *)
(*             agent against a backend that answers anything.              *)
(*   SpecSSID  heartbeats on a provisioned device whose responses carry a  *)
(*             configuration object: apply_ssid_configuration rewrites     *)
(*             hostapd.conf and restarts the service, and each of its      *)
(*             steps may fail;                                             *)
(*   SpecLoop  the telemetry agent's loop: heartbeat, then sync, on a      *)
(*             device whose credential the backend may replace or revoke;  *)
(*   SpecFault the queue API and the portal's handle_submission with a     *)
(*             store that may fail any statement;                          *)
(*   SpecCleanup  cleanup_old_records across the turn of a month;          *)
(*   SpecSave  save_device_config statement by statement in both agent     *)
(*             processes, with kills;                                      *)
(*   SpecCmd   management heartbeats whose responses carry commands;       *)
(*   SpecMain  the telemetry agent's loop with its two counters;           *)
(*   SpecProv, SpecDrain  that loop under fairness, on an empty queue and  *)
(*             on a stored queue that nothing adds to;                     *)
(*   SpecApply apply_ssid_configuration on any small hostapd.conf;         *)
(*   SpecRetry the management agent's loop under fairness while the        *)
(*             backend keeps asking for one network name;                  *)
(*   SpecTwo   both agent processes saving device.conf from their own      *)
(*             copies;                                                     *)
(*   SpecWipe  a revocation whose unlink or save may fail, and restarts.   *)
(***************************************************************************)
EXTENDS Integers, Sequences, FiniteSets, TLC

VARIABLES
    rows,       \* table queue_items: a set of row records
    seq,        \* sqlite_sequence of queue_items: the largest id ever assigned
    clock,      \* the wall clock datetime.utcnow() reads, in ticks
    last,       \* the last finished call of the queue API: how it ended and what
                \* it returned
    synced,     \* history: the assigned ids that mark_synced calls were given
    pc,         \* SpecConc: where each enqueueing process stands in its call
    cnt,        \* SpecConc: the count each process read at the start of its call
    sync,       \* where sync_queued_analytics stands, its batch, its upload result
                \* and the uploads and mark_* calls the run has made so far
    acked,      \* history: <<id, item_type>> of the items of uploads answered 200
    cfg,        \* the Config object of each agent process
    disk_conf,  \* the file device.conf
    disk_cache, \* the file config.json of the cache directory
    hb,         \* the heartbeat that has just returned, NoHB after any other step
    hostapd,    \* the file /etc/hostapd/hostapd.conf
    ap,         \* the apply_ssid_configuration call of the heartbeat that has
                \* just returned, NoApply when it made none
    portal,     \* what the handle_submission call that has just returned gave
                \* back, NoPortal after any other step
    fault,      \* whether a statement of the queue call that has just returned
                \* was answered with sqlite3.Error; SpecWipe: whether the unlink
                \* or the save of the wipe that has just returned failed
    save,       \* SpecSave: the directory entries device.conf and device.tmp,
                \* the files they name, and where each agent process stands in
                \* save_device_config
    cmdlog,     \* the commands the management heartbeat that has just returned
                \* dispatched, in the order of dispatch, with their results
    loop        \* SpecMain: where the loop of telemetry_agent.main stands, its
                \* two counters, and how many sleeps ago it last attempted a
                \* heartbeat and last ran the sync

qvars == <<rows, seq, clock, last, synced>>
cvars == <<pc, cnt>>
svars == <<sync, acked>>
hvars == <<cfg, disk_conf, disk_cache, hb, hostapd, ap, portal, fault, save, cmdlog, loop>>
wvars == <<hostapd, ap, cmdlog>>
pvars == <<portal, fault, save, loop>>

vars == <<rows, seq, clock, last, synced, pc, cnt, sync, acked,
          cfg, disk_conf, disk_cache, hb, hostapd, ap, portal, fault, save, cmdlog,
          loop>>

(***************************************************************************)
(* Bounds of the model.                                                    *)
(***************************************************************************)
\* QueueManager.MAX_ANALYTICS_RECORDS is 10000 and MAX_SUBMISSIONS is 1000 in
\* the program (telemetry_queue.py:30-31); the model keeps the names and the
\* order (submissions have the smaller capacity) and scales the values.
MAX_ANALYTICS_RECORDS == 2
MAX_SUBMISSIONS == 1
\* ids the store hands out before the model stops enqueueing
MaxId == 4
\* the most lines an interrupted write of hostapd.conf has written
MaxWritten == 1
\* last value of the clock
MaxClock == 2
\* the clock's resolution: ticks per second (10^6 microseconds in the program)
TicksPerSecond == 2
\* seconds per day (86400 in the program)
SecondsPerDay == 1
\* days of the month before the one the clock starts in
DaysPerMonth == 2
\* retry_count is not followed beyond this value
MaxRetry == 1
\* longest id list handed to mark_synced / mark_failed
MaxIdList == 2
\* largest batch_size handed to dequeue_batch
MaxBatch == 2
\* sync_queued_analytics asks for 100 items (telemetry_agent.py:251); scaled
SyncBatchSize == 2

(***************************************************************************)
(* QueueItemType                                                           *)
(***************************************************************************)
PORTAL_SUBMISSION == 1
ANALYTICS_RECORD == 2

\* payloads are opaque to the queue
Payloads == {"p1"}

(***************************************************************************)
(* Timestamps.  datetime.isoformat() is a text; the store compares the     *)
(* created_at column as text (memcmp).  A text is modelled as the sequence *)
(* of its character codes: digits 48.., '.' 46, 'Z' 90.  The month, the    *)
(* day of the month and the time of day are fixed-width fields, so each is *)
(* one character here; the fraction ".ffffff" is written only when the     *)
(* microsecond is not 0.  Tick 0 is the first instant of month 2; the      *)
(* ticks below 0 are the days of month 1, which has DaysPerMonth days.     *)
(***************************************************************************)
TicksPerDay == TicksPerSecond * SecondsPerDay
MonthOf(c) == IF c < 0 THEN 1 ELSE 2
DayOf(c) ==
    IF c < 0 THEN DaysPerMonth + 1 + (c \div TicksPerDay) ELSE 1 + (c \div TicksPerDay)
SecondOf(c) == (c \div TicksPerSecond) % SecondsPerDay
MicroOf(c) == c % TicksPerSecond

isoformat(month, day, sec, micro) ==
    <<48 + month, 48 + day, 48 + sec>> \o (IF micro = 0 THEN <<>> ELSE <<46, 48 + micro>>)

\* QueueManager._get_timestamp: datetime.utcnow().isoformat() + 'Z'
get_timestamp(c) == isoformat(MonthOf(c), DayOf(c), SecondOf(c), MicroOf(c)) \o <<90>>

RECURSIVE StrLess(_, _)
\* a < b for two texts, byte by byte (SQLite's BINARY collation)
StrLess(a, b) ==
    IF b = <<>> THEN FALSE
    ELSE IF a = <<>> THEN TRUE
    ELSE IF Head(a) # Head(b) THEN Head(a) < Head(b)
    ELSE StrLess(Tail(a), Tail(b))

\* the SQL NULL of column last_retry_at
NULL == <<>>

\* json.dumps / json.loads of a payload
json_dumps(p) == <<"json", p>>
json_loads(t) == t[2]

(***************************************************************************)
(* The statements of QueueManager, as functions of the table.              *)
(***************************************************************************)
Min(a, b) == IF a < b THEN a ELSE b

RowsOfType(R, t) == {r \in R : r.item_type = t}

\* SELECT COUNT(*) FROM queue_items WHERE item_type = ANALYTICS_RECORD
get_analytics_count(R) == Cardinality(RowsOfType(R, ANALYTICS_RECORD))

\* SELECT COUNT(*) FROM queue_items WHERE item_type = PORTAL_SUBMISSION
get_submission_count(R) == Cardinality(RowsOfType(R, PORTAL_SUBMISSION))

MaxOf(S) == CHOOSE m \in S : \A x \in S : x <= m

\* (mutation) id INTEGER PRIMARY KEY without AUTOINCREMENT: one more than the
\* largest id in the table now
NextId_NoAutoincrement(R, sq) == MaxOf({0} \cup {r.id : r \in R}) + 1

\* id INTEGER PRIMARY KEY AUTOINCREMENT: one more than the largest id the
\* table ever held (sqlite_sequence) or holds
NextId(R, sq) == MaxOf({sq} \cup {r.id : r \in R}) + 1

\* INSERT INTO queue_items (item_type, priority, data, created_at): the id is
\* assigned by the store, retry_count takes its DEFAULT 0 and last_retry_at
\* is NULL.
NewRow(id, t, p, c) ==
    [id |-> id, item_type |-> t, priority |-> t, data |-> json_dumps(p),
     created_at |-> get_timestamp(c), retry_count |-> 0, last_retry_at |-> NULL]

\* (mutation) ORDER BY created_at DESC: the newest row instead of the oldest
OldestAnalytics_Desc(R) ==
    {r \in RowsOfType(R, ANALYTICS_RECORD) :
        \A o \in RowsOfType(R, ANALYTICS_RECORD) : ~StrLess(r.created_at, o.created_at)}

\* the rows SELECT id ... WHERE item_type = ANALYTICS_RECORD ORDER BY created_at
\* ASC LIMIT 1 may return: ORDER BY names no tie-break, so any row with the
\* least created_at text
OldestAnalytics(R) ==
    {r \in RowsOfType(R, ANALYTICS_RECORD) :
        \A o \in RowsOfType(R, ANALYTICS_RECORD) : ~StrLess(o.created_at, r.created_at)}

\* the tables _drop_oldest_analytics may leave
drop_oldest_analytics(R) ==
    IF RowsOfType(R, ANALYTICS_RECORD) = {} THEN {R}
    ELSE {R \ {v} : v \in OldestAnalytics(R)}

\* (mutation) ORDER BY created_at ASC alone: the priority is dropped
RowBefore_NoPriority(a, b) == StrLess(a.created_at, b.created_at)

\* ORDER BY priority ASC, created_at ASC
RowBefore(a, b) ==
    \/ a.priority < b.priority
    \/ a.priority = b.priority /\ StrLess(a.created_at, b.created_at)

RECURSIVE Orderings(_)
\* every order of the table's rows the ORDER BY clause allows: the clause
\* names no tie-break, so rows with equal (priority, created_at) come in any
\* order
Orderings(R) ==
    IF R = {} THEN {<<>>}
    ELSE UNION {{<<m>> \o f : f \in Orderings(R \ {m})} :
                   m \in {r \in R : \A o \in R : ~RowBefore(o, r)}}

\* the (id, item_type, data) tuple dequeue_batch builds from a row
BatchItem(r) == <<r.id, r.item_type, json_loads(r.data)>>

\* the lists dequeue_batch(batch_size) may return
DequeueResults(R, n) ==
    {[i \in 1..Min(n, Len(f)) |-> BatchItem(f[i])] : f \in Orderings(R)}

IdSet(ids) == {ids[i] : i \in 1..Len(ids)}

\* DELETE FROM queue_items WHERE id IN (ids)
DeleteIds(R, ids) == {r \in R : r.id \notin IdSet(ids)}

\* (mutation) one UPDATE per list element: an id listed twice counts twice
UpdateRetry_PerElement(R, ids, ts) ==
    {IF r.id \in IdSet(ids)
        THEN [r EXCEPT !.retry_count = @ + Cardinality({i \in 1..Len(ids) : ids[i] = r.id}),
                       !.last_retry_at = ts]
        ELSE r : r \in R}

\* UPDATE queue_items SET retry_count = retry_count + 1, last_retry_at = ts
\* WHERE id IN (ids)
UpdateRetry(R, ids, ts) ==
    {IF r.id \in IdSet(ids)
        THEN [r EXCEPT !.retry_count = @ + 1, !.last_retry_at = ts]
        ELSE r : r \in R}

\* cleanup_old_records: today at 00:00:00, its day of the month replaced by
\* day - days; datetime.replace raises ValueError for a day below 1
CutoffValid(c, days) == DayOf(c) - days >= 1
CutoffStr(c, days) == isoformat(MonthOf(c), DayOf(c) - days, 0, 0) \o <<90>>

\* DELETE FROM queue_items WHERE created_at < cutoff_str
DeleteOlder(R, cutoff) == {r \in R : ~StrLess(r.created_at, cutoff)}

(***************************************************************************)
(* What the last finished call was: its name, how it ended ("ok" or the    *)
(* exception it raised) and what it returned (the list of dequeue_batch,   *)
(* the count of cleanup_old_records, None otherwise).                      *)
(***************************************************************************)
None == <<>>

Call(op, result, ret) == [op |-> op, result |-> result, ret |-> ret]

\* the id lists a caller hands to mark_synced and mark_failed: ids that are
\* queued, ids that were removed, ids never assigned, and an id listed more than
\* once.  WHERE id IN (...) reads the list as a set, so one order of each list
\* stands for all.
IdLists ==
    {l \in UNION {[1..k -> 1..MaxId] : k \in 0..MaxIdList} :
        \A i, j \in 1..Len(l) : i < j => l[i] <= l[j]}

\* the processes that write the queue at the same time
Procs == {"p1", "p2"}

(***************************************************************************)
(* Device identity (config.py).  An Optional field is None or Some(v), so  *)
(* that the empty string Some("") and None stay different values, as they  *)
(* are for the program.                                                    *)
(***************************************************************************)
Some(v) == <<v>>

\* a key that a JSON object does not have
Absent == <<"no", "key">>

Agents == {"management", "telemetry"}
Tokens == {"T1", "T2"}
DeviceIds == {"id7"}
\* what get_serial_number() can generate: from /proc/cpuinfo, or at random
GeneratedSerials == {"CS-SHAKA-V1-001", "CS-SHAKA-V1-417"}
EventConfigs == {[payload |-> "E", config_version |-> v] : v \in {1, 2}}

\* Config.__init__
NewConfig ==
    [device_id |-> None, device_serial |-> None, device_token |-> None,
     event_config |-> None, config_version |-> None, wifi_ssid |-> None]

\* the object save_device_config() writes
DeviceConf(c) ==
    [device_id |-> c.device_id, device_serial |-> c.device_serial,
     device_token |-> c.device_token, wifi_ssid |-> c.wifi_ssid]

\* Config.load()
Load(conf, cache) ==
    LET c1 == IF conf = None THEN NewConfig
              ELSE [NewConfig EXCEPT !.device_id = conf[1].device_id,
                                     !.device_serial = conf[1].device_serial,
                                     !.device_token = conf[1].device_token,
                                     !.wifi_ssid = conf[1].wifi_ssid]
    IN IF cache = None THEN c1
       ELSE [c1 EXCEPT !.event_config = cache[1].configuration,
                       !.config_version = cache[1].version]

\* Python's truth value of an Optional[str]
Truthy(x) == x # None /\ x # Some("")

\* Config.is_registered()
is_registered(c) == c.device_token # None

\* ManagementAgent.send_heartbeat: has_token
has_token(c) == c.device_token # None /\ c.device_token # Some("")

\* Config.get_serial_number(): the Config objects it can leave
get_serial_number(c) ==
    IF Truthy(c.device_serial) THEN {c}
    ELSE {[c EXCEPT !.device_serial = Some(s)] : s \in GeneratedSerials}

\* (mutation) the wipe leaves the credential
wipe_device_data_KeepsToken(c) ==
    [c EXCEPT !.device_id = None, !.event_config = None, !.config_version = None]

\* Config.wipe_device_data(): the Config object it leaves; it unlinks the cache
\* file and writes device.conf
wipe_device_data(c) ==
    [c EXCEPT !.device_token = None, !.device_id = None,
              !.event_config = None, !.config_version = None]

\* json.dumps(payload, sort_keys=True, separators=(',', ':')): the keys in
\* sorted order, each with its value.  A payload is the sequence of its
\* <<key, value>> pairs in insertion order.
SortedKeys ==
    <<"device_token", "firmware_version", "serial_number", "signature",
      "telemetry", "timestamp">>

HasField(payload, k) == \E i \in 1..Len(payload) : payload[i][1] = k

Field(payload, k) == (CHOOSE i \in 1..Len(payload) : payload[i][1] = k)

canonical_json(payload) ==
    LET keys == SelectSeq(SortedKeys, LAMBDA k : HasField(payload, k))
    IN [i \in 1..Len(keys) |-> <<keys[i], payload[Field(payload, keys[i])][2]>>]

\* hmac.new(key, msg, hashlib.sha256).hexdigest()
HMAC(key, msg) == <<"hmac-sha256", key, msg>>

\* (mutation) the signature is keyed with the empty string
sign_request_NoKey(c, payload) == HMAC("", canonical_json(payload))

\* _sign_request of either agent, called with a non-empty device_token
sign_request(c, payload) == HMAC(c.device_token[1], canonical_json(payload))

\* the body of the heartbeat without token
InitialRequest(c) ==
    <<<<"serial_number", c.device_serial[1]>>, <<"firmware_version", "1.0.0">>,
      <<"telemetry", "telemetry">>, <<"timestamp", "now">>>>

\* the body of the authenticated heartbeat: {**payload, 'signature': signature}
SignedRequest(c) ==
    LET payload == <<<<"device_token", c.device_token[1]>>,
                     <<"telemetry", "telemetry">>, <<"timestamp", "now">>>>
    IN Append(payload, <<"signature", sign_request(c, payload)>>)

\* (mutation) the request is posted a second time
management_requests_Retry(c, c1) ==
    IF has_token(c) THEN <<SignedRequest(c), SignedRequest(c)>>
    ELSE <<InitialRequest(c1), InitialRequest(c1)>>

\* ManagementAgent.send_heartbeat: the requests it posts; c1 is the Config
\* once get_serial_number() has run
management_requests(c, c1) ==
    IF has_token(c) THEN <<SignedRequest(c)>> ELSE <<InitialRequest(c1)>>

\* telemetry_agent.main: the requests the heartbeat branch posts;
\* _sign_request raises on an empty device_token before anything is sent
telemetry_requests(c, c1) ==
    IF ~is_registered(c) THEN <<InitialRequest(c1)>>
    ELSE IF Truthy(c.device_token) THEN <<SignedRequest(c)>>
    ELSE <<>>

\* ManagementAgent.send_heartbeat: whether it returns the response's data
\* rather than None
management_returns(c, resp) ==
    /\ resp.code = 200
    /\ ~(has_token(c) /\ resp.device_token = None)
    /\ resp.status # "token_revoked"

\* telemetry_agent.main: whether send_initial_heartbeat() returns a token,
\* or send_heartbeat() the response's data, rather than None
telemetry_returns(c, resp) ==
    IF ~is_registered(c)
    THEN resp.code = 200 /\ resp.device_token # Absent /\ Truthy(resp.device_token)
    ELSE /\ Truthy(c.device_token)
         /\ resp.code = 200
         /\ resp.status # "token_revoked"
         /\ resp.device_token # None

NoHB == [agent |-> "none", had_token |-> FALSE, token |-> None, serial |-> None,
         code |-> 0, status |-> "none", device_token |-> Absent,
         requests |-> <<>>, before |-> NewConfig, returns |-> FALSE,
         commands |-> <<>>, wifi_ssid |-> Absent]

\* c is the agent's Config when the call began, c1 when it returned
HB(a, c, c1, resp) ==
    [agent |-> a, had_token |-> has_token(c), token |-> c.device_token,
     serial |-> c.device_serial,
     code |-> resp.code, status |-> resp.status, device_token |-> resp.device_token,
     requests |-> IF a = "management" THEN management_requests(c, c1)
                  ELSE telemetry_requests(c, c1),
     before |-> c,
     returns |-> IF a = "management" THEN management_returns(c, resp)
                 ELSE telemetry_returns(c, resp),
     commands |-> IF "commands" \in DOMAIN resp THEN resp.commands ELSE <<>>,
     wifi_ssid |-> resp.wifi_ssid]

\* /etc/hostapd/hostapd.conf is a record: whether the file exists and, as
\* readlines() returns them, its lines; a line is <<leading blanks, key, value>>
\* and stands for the text blanks key=value newline
MissingFile == [exists |-> FALSE, lines |-> <<>>]

ShippedFile ==
    [exists |-> TRUE,
     lines |-> <<<<"", "interface", "wlan0">>, <<"", "ssid", "CrowdSurfer">>>>]

InitialFiles ==
    {ShippedFile,
     MissingFile,
     [exists |-> TRUE,
      lines |-> <<<<"", "interface", "wlan0">>, <<"", "#ssid", "CrowdSurfer">>>>],
     [exists |-> TRUE,
      lines |-> <<<<"", "ssid", "CrowdSurfer">>, <<"", "channel", "6">>,
                  <<" ", "ssid", "Guest">>>>]}

SsidNames == {"NetA", "NetB"}

\* what the environment does to one apply_ssid_configuration call: how the
\* open() for reading and the open() and writelines() for writing end, how
\* many lines an interrupted write has left in the file, how systemctl ends
\* (a step that is not reached is given its fault-free outcome)
Envs ==
    {e \in [read : {"ok", "PermissionError"},
            write : {"ok", "PermissionError", "OSError"},
            written : 0..MaxWritten,
            restart : {"ok", "failed", "timeout", "error"},
            systemctl : {"ok"},
            config : {None}] :
        /\ e.read # "ok" => e.write = "ok" /\ e.restart = "ok"
        /\ e.write # "ok" => e.restart = "ok"
        /\ e.write # "OSError" => e.written = 0}

NoFaults ==
    [read |-> "ok", write |-> "ok", written |-> 0, restart |-> "ok",
     systemctl |-> "ok", config |-> None]

\* (mutation) a commented-out ssid= line counts as well
IsSsidLine_Commented(line) == line[2] \in {"ssid", "#ssid"}

\* line.strip().startswith('ssid=')
IsSsidLine(line) == line[2] = "ssid"

\* apply_ssid_configuration: new_lines
ReplaceSsid(lines, wifi_ssid) ==
    [i \in 1..Len(lines) |->
        IF IsSsidLine(lines[i]) THEN <<"", "ssid", wifi_ssid>> ELSE lines[i]]

\* the error type _report_configuration_error is given when the restart fails
RestartReason(outcome) ==
    IF outcome = "failed" THEN "systemctl_restart_failed"
    ELSE IF outcome = "timeout" THEN "systemctl_timeout"
    ELSE "systemctl_error"

\* (mutation) a failed restart leaves the new configuration in the file
Rollback_None(original_lines, new_lines) == new_lines

\* apply_ssid_configuration: the rollback, open(path, 'w') and
\* writelines(original_lines); this write succeeds
Rollback(original_lines, new_lines) == original_lines

\* apply_ssid_configuration: the file after a writelines(new_lines) that
\* raised after n lines; open(path, 'w') has truncated the file
InterruptedWrite(original_lines, new_lines, n) ==
    SubSeq(new_lines, 1, Min(n, Len(new_lines)))

\* (mutation) the call gives up before it reads the file
apply_ssid_configuration_GivesUp(file, wifi_ssid, env) ==
    [file |-> file, ret |-> FALSE, step |-> "read", reason |-> "file_not_found",
     restarts |-> 0]

\* ManagementAgent.apply_ssid_configuration: the file it leaves, what it
\* returns, the step it ended in, the error type it reported ("none": it
\* reported nothing) and the number of systemctl restart hostapd it ran
apply_ssid_configuration(file, wifi_ssid, env) ==
    LET original_lines == file.lines
        new_lines == ReplaceSsid(original_lines, wifi_ssid)
        ssid_found == \E i \in 1..Len(original_lines) : IsSsidLine(original_lines[i])
        Result(lines, ret, step, reason, restarts) ==
            [file |-> [file EXCEPT !.lines = lines], ret |-> ret, step |-> step,
             reason |-> reason, restarts |-> restarts]
    IN IF ~file.exists
       THEN Result(original_lines, FALSE, "read", "file_not_found", 0)
       ELSE IF env.read = "PermissionError"
       THEN Result(original_lines, FALSE, "read", "permission_denied", 0)
       ELSE IF ~ssid_found
       THEN Result(original_lines, FALSE, "find", "ssid_line_not_found", 0)
       ELSE IF env.write = "PermissionError"
       THEN Result(original_lines, FALSE, "write", "permission_denied", 0)
       ELSE IF env.write = "OSError"
       THEN Result(InterruptedWrite(original_lines, new_lines, env.written),
                   FALSE, "write", "unexpected_error", 0)
       ELSE IF env.restart = "ok"
       THEN Result(new_lines, TRUE, "done", "none", 1)
       ELSE Result(Rollback(original_lines, new_lines), FALSE, "restart",
                   RestartReason(env.restart), 1)

\* (mutation) the applied name is not recorded
CommitSsid_Skipped(c, new_ssid) == c

\* send_heartbeat: self.config.wifi_ssid = new_ssid
CommitSsid(c, new_ssid) == [c EXCEPT !.wifi_ssid = new_ssid]

\* the files a save can bring into being at the same time
Inodes == 1..3

\* no device.conf, no device.tmp, no save_device_config under way
NoSave ==
    [conf |-> 0, tmp |-> 0, data |-> [i \in Inodes |-> <<>>],
     pc |-> [a \in Agents |-> "idle"], fd |-> [a \in Agents |-> 0]]

\* Config.heartbeat_interval and Config.analytics_sync_interval, in sleeps of
\* the loop (DEFAULT_HEARTBEAT_INTERVAL and DEFAULT_ANALYTICS_SYNC_INTERVAL
\* scaled down)
heartbeat_interval == 2
analytics_sync_interval == 3

\* the ages of the last heartbeat attempt and of the last sync run are counted
\* up to MaxAge sleeps; MaxAge also stands for 'never'
MaxAge == 4

\* telemetry_agent.main enters its loop: heartbeat_counter = 0, sync_counter = 0
NoLoop ==
    [pc |-> "heartbeat", heartbeat_counter |-> 0, sync_counter |-> 0,
     hb_age |-> MaxAge, sync_age |-> MaxAge, did |-> "none"]

\* handle_submission has not just returned
NoPortal == [called |-> FALSE, success |-> FALSE, grant_called |-> FALSE]

NoApply ==
    [called |-> FALSE, wifi_ssid |-> "", ret |-> FALSE, step |-> "none",
     reason |-> "none", restarts |-> 0]

Applied(wifi_ssid, res) ==
    [called |-> TRUE, wifi_ssid |-> wifi_ssid, ret |-> res.ret, step |-> res.step,
     reason |-> res.reason, restarts |-> res.restarts]

\* sync_queued_analytics at rest
SyncIdle == [pc |-> "idle", batch |-> <<>>, ok |-> FALSE, calls |-> <<>>]

(***************************************************************************)
(* Initial state: an empty table in a fresh database, no call under way.   *)
(***************************************************************************)
Init ==
    /\ rows = {}
    /\ seq = 0
    /\ clock = 0
    /\ last = Call("none", "ok", None)
    /\ synced = {}
    /\ pc = [p \in Procs |-> "idle"]
    /\ cnt = [p \in Procs |-> 0]
    /\ sync = SyncIdle
    /\ acked = {}
    /\ cfg = [a \in Agents |-> NewConfig]
    /\ disk_conf = None
    /\ disk_cache = None
    /\ hb = NoHB
    /\ hostapd = ShippedFile
    /\ ap = NoApply
    /\ portal = NoPortal
    /\ fault = FALSE
    /\ save = NoSave
    /\ loop = NoLoop
    /\ cmdlog = <<>>

(***************************************************************************)
(* The queue API, one action per call (Spec).                              *)
(***************************************************************************)
Tick ==
    /\ clock < MaxClock
    /\ clock' = clock + 1
    /\ UNCHANGED <<rows, seq, last, synced>>

enqueue_analytics(p) ==
    /\ seq < MaxId
    /\ \E R1 \in (IF get_analytics_count(rows) >= MAX_ANALYTICS_RECORDS
                    THEN drop_oldest_analytics(rows) ELSE {rows}) :
          /\ rows' = R1 \cup {NewRow(NextId(R1, seq), ANALYTICS_RECORD, p, clock)}
          /\ seq' = NextId(R1, seq)
    /\ last' = Call("enqueue_analytics", "ok",
                    IF get_analytics_count(rows) >= MAX_ANALYTICS_RECORDS
                    THEN <<"dropping oldest record">> ELSE None)
    /\ UNCHANGED <<clock, synced>>

\* (mutation) the capacity test written with > instead of >=
enqueue_submission_Gt(p) ==
    IF get_submission_count(rows) > MAX_SUBMISSIONS
    THEN /\ last' = Call("enqueue_submission", "ValueError", None)
         /\ UNCHANGED <<rows, seq, clock, synced>>
    ELSE /\ seq < MaxId
         /\ rows' = rows \cup {NewRow(NextId(rows, seq), PORTAL_SUBMISSION, p, clock)}
         /\ seq' = NextId(rows, seq)
         /\ last' = Call("enqueue_submission", "ok", None)
         /\ UNCHANGED <<clock, synced>>

enqueue_submission(p) ==
    IF get_submission_count(rows) >= MAX_SUBMISSIONS
    THEN /\ last' = Call("enqueue_submission", "ValueError", None)
         /\ UNCHANGED <<rows, seq, clock, synced>>
    ELSE /\ seq < MaxId
         /\ rows' = rows \cup {NewRow(NextId(rows, seq), PORTAL_SUBMISSION, p, clock)}
         /\ seq' = NextId(rows, seq)
         /\ last' = Call("enqueue_submission", "ok", None)
         /\ UNCHANGED <<clock, synced>>

dequeue_batch(n) ==
    /\ \E b \in DequeueResults(rows, n) : last' = Call("dequeue_batch", "ok", b)
    /\ UNCHANGED <<rows, seq, clock, synced>>

mark_synced(ids) ==
    /\ rows' = (IF ids = <<>> THEN rows ELSE DeleteIds(rows, ids))
    /\ last' = Call("mark_synced", "ok", None)
    /\ synced' = synced \cup (IdSet(ids) \cap 1..seq)
    /\ UNCHANGED <<seq, clock>>

mark_failed(ids) ==
    /\ \A r \in rows : r.id \in IdSet(ids) => r.retry_count < MaxRetry
    /\ rows' = (IF ids = <<>> THEN rows ELSE UpdateRetry(rows, ids, get_timestamp(clock)))
    /\ last' = Call("mark_failed", "ok", None)
    /\ UNCHANGED <<seq, clock, synced>>

cleanup_old_records(days) ==
    /\ IF CutoffValid(clock, days)
       THEN /\ rows' = DeleteOlder(rows, CutoffStr(clock, days))
            /\ last' = Call("cleanup_old_records", "ok",
                            <<Cardinality(rows) - Cardinality(rows')>>)
       ELSE /\ rows' = rows
            /\ last' = Call("cleanup_old_records", "ValueError", <<0>>)
    /\ UNCHANGED <<seq, clock, synced>>

Next ==
    \/ Tick /\ UNCHANGED <<cvars, svars, hvars>>
    \/ (\E p \in Payloads : enqueue_analytics(p)) /\ UNCHANGED <<cvars, svars, hvars>>
    \/ (\E p \in Payloads : enqueue_submission(p)) /\ UNCHANGED <<cvars, svars, hvars>>
    \/ (\E n \in 1..MaxBatch : dequeue_batch(n)) /\ UNCHANGED <<cvars, svars, hvars>>
    \/ (\E ids \in IdLists : mark_synced(ids)) /\ UNCHANGED <<cvars, svars, hvars>>
    \/ (\E ids \in IdLists : mark_failed(ids)) /\ UNCHANGED <<cvars, svars, hvars>>
    \/ (\E days \in 0..1 : cleanup_old_records(days)) /\ UNCHANGED <<cvars, svars, hvars>>

Spec == Init /\ [][Next]_vars

(***************************************************************************)
(* SpecCleanup: cleanup_old_records called on a queue that was filled      *)
(* during the last month and this one.  The clock reads any instant of the *)
(* first two days of month 2; the stored items were created at instants of *)
(* month 1 or of month 2 up to now, in the order of their ids.             *)
(***************************************************************************)
\* the largest 'days' handed to cleanup_old_records
MaxDays == 2

Todays == 0..(2 * TicksPerDay - 1)
Pasts(now) == (0 - DaysPerMonth * TicksPerDay)..now

\* a row as enqueue_* wrote it at instant c, after 'retry' calls of mark_failed
StoredRow(id, t, c, retry) ==
    [NewRow(id, t, "p1", c) EXCEPT
        !.retry_count = retry,
        !.last_retry_at = IF retry = 0 THEN NULL ELSE get_timestamp(c)]

StoredQueues(now) ==
    {{}} \cup
    {{StoredRow(1, t, c, k)} :
        t \in {PORTAL_SUBMISSION, ANALYTICS_RECORD}, c \in Pasts(now), k \in 0..MaxRetry} \cup
    {{StoredRow(1, tc[1], tc[2], tc[3]), StoredRow(2, tc[4], tc[5], tc[6])} :
        tc \in {x \in {PORTAL_SUBMISSION, ANALYTICS_RECORD} \X Pasts(now) \X (0..MaxRetry)
                     \X {PORTAL_SUBMISSION, ANALYTICS_RECORD} \X Pasts(now) \X (0..MaxRetry) :
                  /\ x[2] <= x[5]
                  /\ ~(x[1] = PORTAL_SUBMISSION /\ x[4] = PORTAL_SUBMISSION)}}

InitCleanup ==
    /\ clock \in Todays
    /\ rows \in StoredQueues(clock)
    /\ seq = Cardinality(rows)
    /\ last = Call("none", "ok", None)
    /\ synced = {}
    /\ pc = [p \in Procs |-> "idle"]
    /\ cnt = [p \in Procs |-> 0]
    /\ sync = SyncIdle
    /\ acked = {}
    /\ cfg = [a \in Agents |-> NewConfig]
    /\ disk_conf = None
    /\ disk_cache = None
    /\ hb = NoHB
    /\ hostapd = ShippedFile
    /\ ap = NoApply
    /\ portal = NoPortal
    /\ fault = FALSE
    /\ save = NoSave
    /\ loop = NoLoop
    /\ cmdlog = <<>>

NextCleanup ==
    (\E days \in 0..MaxDays : cleanup_old_records(days)) /\ UNCHANGED <<cvars, svars, hvars>>

SpecCleanup == InitCleanup /\ [][NextCleanup]_vars

(***************************************************************************)
(* SpecFault: one caller at a time, as in Spec, and a store that may       *)
(* answer any statement of a call with sqlite3.Error (database is locked,  *)
(* disk I/O error).  One action is one call from its first statement to    *)
(* its return; the portal's handle_submission is one of the callers.  The  *)
(* clock stands still: no call of this specification depends on it.        *)
(***************************************************************************)
\* enqueue_submission: _get_submission_count returns 0 when its query fails
enqueue_submission_io(p, count_fails, insert_fails) ==
    LET count == IF count_fails THEN 0 ELSE get_submission_count(rows)
    IN /\ IF count >= MAX_SUBMISSIONS
          THEN /\ last' = Call("enqueue_submission", "ValueError", None)
               /\ fault' = count_fails
               /\ UNCHANGED <<rows, seq>>
          ELSE IF insert_fails
          THEN /\ last' = Call("enqueue_submission", "sqlite3.Error", None)
               /\ fault' = TRUE
               /\ UNCHANGED <<rows, seq>>
          ELSE /\ seq < MaxId
               /\ rows' = rows \cup {NewRow(NextId(rows, seq), PORTAL_SUBMISSION, p, clock)}
               /\ seq' = NextId(rows, seq)
               /\ last' = Call("enqueue_submission", "ok", None)
               /\ fault' = count_fails
       /\ UNCHANGED <<clock, synced>>

\* enqueue_analytics: _get_analytics_count returns 0 when its query fails,
\* _drop_oldest_analytics commits its DELETE or, when it fails, logs and
\* returns; the INSERT is another transaction and its error is re-raised
enqueue_analytics_io(p, count_fails, drop_fails, insert_fails) ==
    LET count == IF count_fails THEN 0 ELSE get_analytics_count(rows)
        full == count >= MAX_ANALYTICS_RECORDS
    IN /\ \E R1 \in (IF full /\ ~drop_fails THEN drop_oldest_analytics(rows) ELSE {rows}) :
            IF insert_fails
            THEN /\ rows' = R1
                 /\ last' = Call("enqueue_analytics", "sqlite3.Error", None)
                 /\ UNCHANGED seq
            ELSE /\ seq < MaxId
                 /\ rows' = R1 \cup {NewRow(NextId(R1, seq), ANALYTICS_RECORD, p, clock)}
                 /\ seq' = NextId(R1, seq)
                 /\ last' = Call("enqueue_analytics", "ok",
                                 IF full THEN <<"dropping oldest record">> ELSE None)
       /\ fault' = (count_fails \/ (full /\ drop_fails) \/ insert_fails)
       /\ UNCHANGED <<clock, synced>>

\* dequeue_batch: the except branch returns []
dequeue_batch_io(n, fails) ==
    IF fails
    THEN /\ last' = Call("dequeue_batch", "ok", <<>>)
         /\ fault' = TRUE
         /\ UNCHANGED <<rows, seq, clock, synced>>
    ELSE dequeue_batch(n) /\ fault' = FALSE

\* mark_synced: the except branch logs and returns
mark_synced_io(ids, fails) ==
    IF fails /\ ids # <<>>
    THEN /\ last' = Call("mark_synced", "ok", None)
         /\ fault' = TRUE
         /\ UNCHANGED <<rows, seq, clock, synced>>
    ELSE mark_synced(ids) /\ fault' = FALSE

\* mark_failed: the except branch logs and returns
mark_failed_io(ids, fails) ==
    IF fails /\ ids # <<>>
    THEN /\ last' = Call("mark_failed", "ok", None)
         /\ fault' = TRUE
         /\ UNCHANGED <<rows, seq, clock, synced>>
    ELSE mark_failed(ids) /\ fault' = FALSE

\* the forms a client posts: the two required fields, given or left empty
Forms == [first_name : {"", "Ann"}, last_name : {"", "Lee"}]

\* PortalHandler.validate_submission: 'valid'
validate_submission(assigned, form_data) ==
    assigned /\ form_data.first_name # "" /\ form_data.last_name # ""

\* (mutation) handle_submission goes on whatever queue_submission returned
queue_submission_Ignored(result) == TRUE

\* PortalHandler.queue_submission: True when enqueue_submission returned,
\* False when it raised
queue_submission(result) == result = "ok"

\* PortalHandler.handle_submission
handle_submission(assigned, form_data, p, count_fails, insert_fails) ==
    IF ~validate_submission(assigned, form_data)
    THEN /\ portal' = [called |-> TRUE, success |-> FALSE, grant_called |-> FALSE]
         /\ last' = Call("none", "ok", None)
         /\ fault' = FALSE
         /\ UNCHANGED <<rows, seq, clock, synced>>
    ELSE /\ enqueue_submission_io(p, count_fails, insert_fails)
         /\ portal' = [called |-> TRUE,
                       success |-> queue_submission(last'.result),
                       grant_called |-> queue_submission(last'.result)]

NextFault ==
    \/ (\E a \in BOOLEAN, f \in Forms, p \in Payloads, cf, xf \in BOOLEAN :
            handle_submission(a, f, p, cf, xf))
            /\ UNCHANGED <<cvars, svars, cfg, disk_conf, disk_cache, hb, wvars, save, loop>>
    \/ (\E p \in Payloads, cf, df, xf \in BOOLEAN : enqueue_analytics_io(p, cf, df, xf))
            /\ portal' = NoPortal
            /\ UNCHANGED <<cvars, svars, cfg, disk_conf, disk_cache, hb, wvars, save, loop>>
    \/ (\E n \in 1..MaxBatch, f \in BOOLEAN : dequeue_batch_io(n, f))
            /\ portal' = NoPortal
            /\ UNCHANGED <<cvars, svars, cfg, disk_conf, disk_cache, hb, wvars, save, loop>>
    \/ (\E ids \in IdLists, f \in BOOLEAN : mark_synced_io(ids, f))
            /\ portal' = NoPortal
            /\ UNCHANGED <<cvars, svars, cfg, disk_conf, disk_cache, hb, wvars, save, loop>>
    \/ (\E ids \in IdLists, f \in BOOLEAN : mark_failed_io(ids, f))
            /\ portal' = NoPortal
            /\ UNCHANGED <<cvars, svars, cfg, disk_conf, disk_cache, hb, wvars, save, loop>>

SpecFault == Init /\ [][NextFault]_vars

(***************************************************************************)
(* SpecConc: enqueue_submission and enqueue_analytics run by two processes *)
(* statement by statement.  Each helper opens its own connection, so the   *)
(* count query, the eviction and the INSERT are separate transactions and  *)
(* another process may write between them.  A statement may fail           *)
(* (sqlite3.Error: database is locked, I/O error): the count helpers catch *)
(* the error and return 0, _drop_oldest_analytics catches it and returns,  *)
(* the INSERT's error is re-raised to the caller.                          *)
(***************************************************************************)
Goto(p, label) == pc' = [pc EXCEPT ![p] = label]

\* enqueue_submission, line 107: self._get_submission_count()
sub_count(p, fails) ==
    /\ pc[p] = "idle"
    /\ cnt' = [cnt EXCEPT ![p] = IF fails THEN 0 ELSE get_submission_count(rows)]
    /\ Goto(p, "sub_counted")
    /\ UNCHANGED qvars

\* enqueue_submission, lines 107-125: the capacity test on the count read,
\* then the INSERT
sub_insert(p, d, fails) ==
    /\ pc[p] = "sub_counted"
    /\ Goto(p, "idle")
    /\ IF cnt[p] >= MAX_SUBMISSIONS
       THEN /\ last' = Call("enqueue_submission", "ValueError", None)
            /\ UNCHANGED <<rows, seq>>
       ELSE IF fails
       THEN /\ last' = Call("enqueue_submission", "sqlite3.Error", None)
            /\ UNCHANGED <<rows, seq>>
       ELSE /\ seq < MaxId
            /\ rows' = rows \cup {NewRow(NextId(rows, seq), PORTAL_SUBMISSION, d, clock)}
            /\ seq' = NextId(rows, seq)
            /\ last' = Call("enqueue_submission", "ok", None)
    /\ UNCHANGED <<clock, synced, cnt>>

\* enqueue_analytics, line 78: self._get_analytics_count()
an_count(p, fails) ==
    /\ pc[p] = "idle"
    /\ cnt' = [cnt EXCEPT ![p] = IF fails THEN 0 ELSE get_analytics_count(rows)]
    /\ Goto(p, "an_counted")
    /\ UNCHANGED qvars

\* enqueue_analytics, lines 78-80: the capacity test on the count read and,
\* at capacity, self._drop_oldest_analytics()
an_drop(p, fails) ==
    /\ pc[p] = "an_counted"
    /\ cnt[p] >= MAX_ANALYTICS_RECORDS
    /\ rows' \in (IF fails THEN {rows} ELSE drop_oldest_analytics(rows))
    /\ Goto(p, "an_dropped")
    /\ UNCHANGED <<seq, clock, last, synced, cnt>>

\* enqueue_analytics, lines 82-96: the INSERT
an_insert(p, d, fails) ==
    /\ \/ pc[p] = "an_counted" /\ cnt[p] < MAX_ANALYTICS_RECORDS
       \/ pc[p] = "an_dropped"
    /\ Goto(p, "idle")
    /\ IF fails
       THEN /\ last' = Call("enqueue_analytics", "sqlite3.Error", None)
            /\ UNCHANGED <<rows, seq>>
       ELSE /\ seq < MaxId
            /\ rows' = rows \cup {NewRow(NextId(rows, seq), ANALYTICS_RECORD, d, clock)}
            /\ seq' = NextId(rows, seq)
            /\ last' = Call("enqueue_analytics", "ok", None)
    /\ UNCHANGED <<clock, synced, cnt>>

NextConc ==
    \/ Tick /\ UNCHANGED <<cvars, svars, hvars>>
    \/ (\E p \in Procs, f \in BOOLEAN : sub_count(p, f))
            /\ UNCHANGED <<svars, hvars>>
    \/ (\E p \in Procs, d \in Payloads, f \in BOOLEAN : sub_insert(p, d, f))
            /\ UNCHANGED <<svars, hvars>>
    \/ (\E p \in Procs, f \in BOOLEAN : an_count(p, f))
            /\ UNCHANGED <<svars, hvars>>
    \/ (\E p \in Procs, f \in BOOLEAN : an_drop(p, f))
            /\ UNCHANGED <<svars, hvars>>
    \/ (\E p \in Procs, d \in Payloads, f \in BOOLEAN : an_insert(p, d, f))
            /\ UNCHANGED <<svars, hvars>>

SpecConc == Init /\ [][NextConc]_vars

(***************************************************************************)
(* SpecHB: the heartbeat and the identity.  One action is one call of a    *)
(* handler, from the request to its return.  A response of the backend is  *)
(* its HTTP status (0: the request raised, no response), the status field  *)
(* of its body, the body's device_token key (Absent, null or a string) and *)
(* the wifi_ssid of its configuration object (Absent: no configuration     *)
(* object or no such key in it).  The responses of SpecHB carry no         *)
(* configuration object, those of SpecSSID do; none carries commands.      *)
(***************************************************************************)
HeartbeatResponses ==
    {[code |-> 200, status |-> st, device_token |-> t, wifi_ssid |-> Absent] :
        st \in {"ok", "token_revoked"},
        t \in {Absent, None, Some("")} \cup {Some(x) : x \in Tokens}}
    \cup {[code |-> c, status |-> "none", device_token |-> Absent, wifi_ssid |-> Absent] :
            c \in {401, 500, 0}}

RegisterResponses ==
    {[code |-> 200, device_id |-> Some(i), device_token |-> t] :
        i \in DeviceIds, t \in {Absent} \cup {Some(x) : x \in Tokens}}
    \cup {[code |-> 500, device_id |-> None, device_token |-> Absent]}

ConfigResponses ==
    {[code |-> 200, configuration |-> Some(e)] : e \in EventConfigs}
    \cup {[code |-> 401, configuration |-> None]}

\* ManagementAgent.register_device
register_device(resp) ==
    \E c1 \in get_serial_number(cfg["management"]) :
        LET ok == resp.code = 200
            c2 == IF ok THEN [c1 EXCEPT !.device_id = resp.device_id] ELSE c1
            \* data['device_token'] raises KeyError when the key is absent
            complete == ok /\ resp.device_token # Absent
            c3 == IF complete THEN [c2 EXCEPT !.device_token = resp.device_token]
                  ELSE c2
        IN /\ cfg' = [cfg EXCEPT !["management"] = c3]
           /\ disk_conf' = (IF complete THEN Some(DeviceConf(c3)) ELSE disk_conf)
           /\ UNCHANGED disk_cache

\* ManagementAgent: fetch_configuration() and, when it returns a
\* configuration, cache_configuration(), as main() calls them
fetch_and_cache(resp) ==
    LET c0 == cfg["management"]
        config == IF resp.code = 200 THEN resp.configuration ELSE None
        version == config[1].config_version
        saves == /\ config # None
                 /\ ~(c0.config_version # None /\ version <= c0.config_version[1])
    IN /\ is_registered(c0)
       /\ cfg' = (IF saves
                  THEN [cfg EXCEPT !["management"] =
                            [c0 EXCEPT !.event_config = config,
                                       !.config_version = Some(version)]]
                  ELSE cfg)
       /\ disk_cache' = (IF saves
                         THEN Some([configuration |-> config, version |-> Some(version)])
                         ELSE disk_cache)
       /\ UNCHANGED disk_conf

\* (mutation) a delivered credential is never taken as a new one
TokenDiffers_Never(new_token, current) == FALSE

\* send_heartbeat of either agent: if new_token != self.config.device_token
TokenDiffers(new_token, current) == new_token # current

\* (mutation) every network name of a response counts as a new one
SsidDiffers_Always(new_ssid, current_ssid) == TRUE

\* send_heartbeat: elif new_ssid != current_ssid
SsidDiffers(new_ssid, current_ssid) == new_ssid # current_ssid

\* a command of a heartbeat response: command_type and, in command_params,
\* firmware_url
Command(t, url) == [command_type |-> t, firmware_url |-> url]

CommandTypes == {"config_refresh", "restart", "wipe", "update_firmware", "reboot"}

Commands ==
    {Command(t, None) : t \in CommandTypes}
    \cup {Command("update_firmware", Some("http://fw"))}

\* the longest commands list of a response
MaxCommands == 2

CommandLists == UNION {[1..n -> Commands] : n \in 0..MaxCommands}

\* data.get('commands', [])
CommandsOf(resp) == IF "commands" \in DOMAIN resp THEN resp.commands ELSE <<>>

\* what a handler leaves: the Config object, device.conf, the cache file and
\* the status of the result it returns
Handled(c, conf, cache, status) ==
    [c |-> c, conf |-> conf, cache |-> cache, status |-> status]

\* _handle_config_refresh: fetch_configuration() answers env.config to a
\* registered device; cache_configuration keeps it when its version is new
handle_config_refresh(st, env) ==
    LET config == IF is_registered(st.c) THEN env.config ELSE None
        version == config[1].config_version
        saves == /\ config # None
                 /\ ~(st.c.config_version # None /\ version <= st.c.config_version[1])
    IN Handled(IF saves THEN [st.c EXCEPT !.event_config = config,
                                          !.config_version = Some(version)]
               ELSE st.c,
               st.conf,
               IF saves THEN Some([configuration |-> config, version |-> Some(version)])
               ELSE st.cache,
               "completed")

\* _handle_restart: subprocess.run(..., check=True) returns or raises
handle_restart(st, env) ==
    Handled(st.c, st.conf, st.cache,
            IF env.systemctl = "ok" THEN "completed" ELSE "error")

\* _handle_wipe
handle_wipe(st) ==
    Handled(wipe_device_data(st.c), Some(DeviceConf(wipe_device_data(st.c))), None,
            "completed")

\* (mutation) the placeholder reports success
handle_firmware_update_Done(params) == "completed"

\* _handle_firmware_update: the status of its result
handle_firmware_update(params) == IF params = None THEN "error" ELSE "error"

\* ManagementAgent.process_command
process_command(st, command, env) ==
    IF command.command_type = "config_refresh" THEN handle_config_refresh(st, env)
    ELSE IF command.command_type = "restart" THEN handle_restart(st, env)
    ELSE IF command.command_type = "wipe" THEN handle_wipe(st)
    ELSE IF command.command_type = "update_firmware"
    THEN Handled(st.c, st.conf, st.cache, handle_firmware_update(command.firmware_url))
    ELSE Handled(st.c, st.conf, st.cache, "error")

RECURSIVE RunCommands(_, _, _, _)
\* send_heartbeat: for command in commands: result = self.process_command(command)
RunCommands(st, log, commands, env) ==
    IF commands = <<>> THEN [st |-> st, log |-> log]
    ELSE LET r == process_command(st, Head(commands), env)
         IN RunCommands(r, Append(log, [command |-> Head(commands), status |-> r.status]),
                        Tail(commands), env)

\* ManagementAgent.send_heartbeat
management_send_heartbeat(resp, env) ==
    LET c0 == cfg["management"]
        has == has_token(c0)
        tok == resp.device_token
        \* new_token[:10] on a null token raises before anything is assigned
        raises == resp.code = 200 /\ has /\ tok = None
        takes == /\ resp.code = 200
                 /\ tok # Absent
                 /\ ~has \/ TokenDiffers(tok, c0.device_token)
                 /\ ~raises
        revoked == resp.code = 200 /\ ~raises /\ resp.status = "token_revoked"
        new_ssid == resp.wifi_ssid
    IN \E c1 \in (IF has THEN {c0} ELSE get_serial_number(c0)) :
        LET c2 == IF takes THEN [c1 EXCEPT !.device_token = tok] ELSE c1
            c3 == IF revoked THEN wipe_device_data(c2) ELSE c2
            handled == resp.code = 200 /\ ~raises /\ ~revoked
            applies == /\ handled
                       /\ new_ssid # Absent
                       /\ new_ssid # None
                       /\ SsidDiffers(new_ssid, c3.wifi_ssid)
        IN \E res \in {IF applies
                       THEN apply_ssid_configuration(hostapd, new_ssid[1], env)
                       ELSE [file |-> hostapd, ret |-> FALSE, step |-> "none",
                             reason |-> "none", restarts |-> 0]} :
            LET commits == applies /\ res.ret
                c4 == IF commits THEN CommitSsid(c3, new_ssid) ELSE c3
                st4 == Handled(c4,
                               IF takes \/ revoked \/ commits
                               THEN Some(DeviceConf(c4)) ELSE disk_conf,
                               IF revoked THEN None ELSE disk_cache,
                               "none")
            IN \E run \in {RunCommands(st4, <<>>,
                                       IF handled THEN CommandsOf(resp) ELSE <<>>, env)} :
                /\ cfg' = [cfg EXCEPT !["management"] = run.st.c]
                /\ disk_conf' = run.st.conf
                /\ disk_cache' = run.st.cache
                /\ hostapd' = (IF applies THEN res.file ELSE hostapd)
                /\ ap' = (IF applies THEN Applied(new_ssid[1], res) ELSE NoApply)
                /\ cmdlog' = run.log

\* telemetry_agent.main: the heartbeat branch of the loop, which calls
\* send_initial_heartbeat() or send_heartbeat()
telemetry_heartbeat(resp) ==
    LET c0 == cfg["telemetry"]
        tok == resp.device_token
    IN IF ~is_registered(c0)
       THEN \E c1 \in get_serial_number(c0) :
              LET token == IF resp.code = 200 /\ tok # Absent /\ Truthy(tok)
                           THEN tok ELSE None
                  c2 == IF token # None THEN [c1 EXCEPT !.device_token = token] ELSE c1
              IN /\ cfg' = [cfg EXCEPT !["telemetry"] = c2]
                 /\ disk_conf' = (IF token # None THEN Some(DeviceConf(c2)) ELSE disk_conf)
                 /\ UNCHANGED disk_cache
       ELSE LET \* _sign_request raises on an empty device_token: nothing is sent
                sent == Truthy(c0.device_token)
                revoked == sent /\ resp.code = 200 /\ resp.status = "token_revoked"
                takes == /\ sent
                         /\ resp.code = 200
                         /\ ~revoked
                         /\ tok # Absent
                         \* new_token[:10] on a null token raises
                         /\ tok # None
                         /\ TokenDiffers(tok, c0.device_token)
                denied == sent /\ resp.code = 401
                c1 == IF revoked THEN wipe_device_data(c0)
                      ELSE IF takes THEN [c0 EXCEPT !.device_token = tok]
                      ELSE IF denied THEN [c0 EXCEPT !.device_token = None]
                      ELSE c0
            IN /\ cfg' = [cfg EXCEPT !["telemetry"] = c1]
               /\ disk_conf' = (IF revoked \/ takes \/ denied
                                THEN Some(DeviceConf(c1)) ELSE disk_conf)
               /\ disk_cache' = (IF revoked THEN None ELSE disk_cache)

\* an agent process starts: get_config() loads the files
restart(a) ==
    /\ cfg' = [cfg EXCEPT ![a] = Load(disk_conf, disk_cache)]
    /\ UNCHANGED <<disk_conf, disk_cache>>

\* hb observes the heartbeat that has just returned: the agent, whether it
\* held a credential and which serial when the call began, and the response
NextHB ==
    \/ (\E resp \in RegisterResponses : register_device(resp))
            /\ hb' = NoHB /\ UNCHANGED <<qvars, cvars, svars, wvars, pvars>>
    \/ (\E resp \in ConfigResponses : fetch_and_cache(resp))
            /\ hb' = NoHB /\ UNCHANGED <<qvars, cvars, svars, wvars, pvars>>
    \/ (\E resp \in HeartbeatResponses :
            /\ management_send_heartbeat(resp, NoFaults)
            /\ hb' = HB("management", cfg["management"], cfg'["management"], resp))
            /\ UNCHANGED <<qvars, cvars, svars, pvars>>
    \/ (\E resp \in HeartbeatResponses :
            /\ telemetry_heartbeat(resp)
            /\ hb' = HB("telemetry", cfg["telemetry"], cfg'["telemetry"], resp))
            /\ UNCHANGED <<qvars, cvars, svars, wvars, pvars>>
    \/ (\E a \in Agents : restart(a))
            /\ hb' = NoHB /\ UNCHANGED <<qvars, cvars, svars, wvars, pvars>>

SpecHB == Init /\ [][NextHB]_vars

(***************************************************************************)
(* SpecSSID: configuration reconciliation on a provisioned device.  Both   *)
(* agents run.  The backend answers the management agent's heartbeat with  *)
(* or without a configuration object, a new credential or a revocation,    *)
(* and the environment lets each step of apply_ssid_configuration succeed  *)
(* or fail; it answers the telemetry agent's heartbeat without a           *)
(* credential or not at all.  A submission waits in the queue.             *)
(***************************************************************************)
SsidResponses ==
    {[code |-> 200, status |-> st, device_token |-> t, wifi_ssid |-> n] :
        st \in {"ok", "token_revoked"},
        t \in {Absent, Some("T2")},
        n \in {Absent, None} \cup {Some(x) : x \in SsidNames}}
    \cup {[code |-> c, status |-> "none", device_token |-> Absent, wifi_ssid |-> Absent] :
            c \in {500, 0}}

QuietResponses ==
    {r \in HeartbeatResponses :
        \/ r.code = 200 /\ r.status = "ok" /\ r.device_token = Absent
        \/ r.code = 500
        \/ r.code = 0}

NextSSID ==
    \/ (\E resp \in SsidResponses, env \in Envs :
            /\ management_send_heartbeat(resp, env)
            /\ hb' = HB("management", cfg["management"], cfg'["management"], resp))
            /\ UNCHANGED <<qvars, cvars, svars, pvars>>
    \/ (\E resp \in QuietResponses :
            /\ telemetry_heartbeat(resp)
            /\ hb' = HB("telemetry", cfg["telemetry"], cfg'["telemetry"], resp))
            /\ UNCHANGED <<qvars, cvars, svars, wvars, pvars>>
    \/ (\E a \in Agents : restart(a))
            /\ hb' = NoHB /\ UNCHANGED <<qvars, cvars, svars, wvars, pvars>>

\* device.conf and the configuration cache of a registered device that has
\* fetched a configuration and has not applied a network name yet
RegisteredConf ==
    [device_id |-> Some("id7"), device_serial |-> Some("CS-SHAKA-V1-001"),
     device_token |-> Some("T1"), wifi_ssid |-> None]

CachedConfig ==
    [configuration |-> Some([payload |-> "E", config_version |-> 1]),
     version |-> Some(1)]

InitSSID ==
    /\ rows = {NewRow(1, PORTAL_SUBMISSION, "p1", 0)}
    /\ seq = 1
    /\ clock = 0
    /\ last = Call("none", "ok", None)
    /\ synced = {}
    /\ pc = [p \in Procs |-> "idle"]
    /\ cnt = [p \in Procs |-> 0]
    /\ sync = SyncIdle
    /\ acked = {}
    /\ disk_conf = Some(RegisteredConf)
    /\ disk_cache = Some(CachedConfig)
    /\ cfg = [a \in Agents |-> Load(disk_conf, disk_cache)]
    /\ hb = NoHB
    /\ hostapd \in InitialFiles
    /\ ap = NoApply
    /\ portal = NoPortal
    /\ fault = FALSE
    /\ save = NoSave
    /\ loop = NoLoop
    /\ cmdlog = <<>>

SpecSSID == InitSSID /\ [][NextSSID]_vars

(***************************************************************************)
(* SpecApply: apply_ssid_configuration on its own.  hostapd.conf is any    *)
(* file of up to MaxLines lines out of a few: the interface, a network     *)
(* name, a second network name, an indented and a commented-out one.  Each *)
(* step is one call with a requested name, under any environment.          *)
(***************************************************************************)
MaxLines == 3

ConfLines ==
    {<<"", "interface", "wlan0">>, <<"", "ssid", "CrowdSurfer">>,
     <<"", "ssid", "Guest">>, <<" ", "ssid", "Guest">>, <<"", "#ssid", "Old">>}

ConfFiles ==
    {[exists |-> TRUE, lines |-> l] :
        l \in UNION {[1..n -> ConfLines] : n \in 0..MaxLines}}

InitApply ==
    /\ rows = {}
    /\ seq = 0
    /\ clock = 0
    /\ last = Call("none", "ok", None)
    /\ synced = {}
    /\ pc = [p \in Procs |-> "idle"]
    /\ cnt = [p \in Procs |-> 0]
    /\ sync = SyncIdle
    /\ acked = {}
    /\ disk_conf = Some(RegisteredConf)
    /\ disk_cache = Some(CachedConfig)
    /\ cfg = [a \in Agents |-> Load(disk_conf, disk_cache)]
    /\ hb = NoHB
    /\ hostapd \in ConfFiles
    /\ ap = NoApply
    /\ portal = NoPortal
    /\ fault = FALSE
    /\ save = NoSave
    /\ loop = NoLoop
    /\ cmdlog = <<>>

\* ManagementAgent.apply_ssid_configuration(wifi_ssid)
apply_call(wifi_ssid, env) ==
    \E res \in {apply_ssid_configuration(hostapd, wifi_ssid, env)} :
        /\ hostapd' = res.file
        /\ ap' = Applied(wifi_ssid, res)
        /\ UNCHANGED <<qvars, cvars, svars, cfg, disk_conf, disk_cache, hb, cmdlog, pvars>>

NextApply ==
    \/ \E wifi_ssid \in SsidNames, env \in Envs : apply_call(wifi_ssid, env)

SpecApply == InitApply /\ [][NextApply]_vars

(***************************************************************************)
(* SpecCmd: heartbeats of the management agent on a provisioned device     *)
(* whose responses carry a commands list and, some of them, a              *)
(* configuration object.  hostapd.conf is the shipped file and its steps   *)
(* do not fail, except the restart of the service; the systemctl calls of  *)
(* the restart command return or raise.                                    *)
(***************************************************************************)
CmdResponses ==
    {r \in [code : {200}, status : {"ok"}, device_token : {Absent},
             wifi_ssid : {Absent, None} \cup {Some(x) : x \in SsidNames},
             commands : CommandLists] :
        Len(r.commands) = MaxCommands => r.wifi_ssid = Absent}
    \cup {[code |-> 200, status |-> "token_revoked", device_token |-> t,
           wifi_ssid |-> Some("NetA"), commands |-> <<Command("restart", None)>>] :
            t \in {Absent, Some("T2")}}
    \cup {[code |-> c, status |-> "none", device_token |-> Absent, wifi_ssid |-> Absent,
           commands |-> <<Command("wipe", None)>>] : c \in {401, 0}}

\* one step out of the ordinary at a time
CmdEnvs ==
    {[NoFaults EXCEPT !.config = g] : g \in {None} \cup {Some(e) : e \in EventConfigs}}
    \cup {[NoFaults EXCEPT !.restart = "failed"], [NoFaults EXCEPT !.systemctl = "failed"]}

NextCmd ==
    \/ (\E resp \in CmdResponses, env \in CmdEnvs :
            /\ management_send_heartbeat(resp, env)
            /\ hb' = HB("management", cfg["management"], cfg'["management"], resp))
            /\ UNCHANGED <<qvars, cvars, svars, pvars>>
    \/ restart("management")
            /\ hb' = NoHB /\ UNCHANGED <<qvars, cvars, svars, wvars, pvars>>

InitCmd == InitSSID /\ hostapd = ShippedFile

SpecCmd == InitCmd /\ [][NextCmd]_vars

(***************************************************************************)
(* SpecTwo: the two agent processes of a provisioned device side by side.  *)
(* Each holds the Config object get_config() loaded when it started and    *)
(* saves the whole of device.conf from it.  The management agent's         *)
(* heartbeat is answered as in SpecSSID, the telemetry agent's also with a *)
(* credential, a revocation or a 401; nothing in the environment fails.    *)
(***************************************************************************)
TwoTelemetryResponses ==
    {r \in HeartbeatResponses :
        \/ r.code = 200 /\ r.status = "ok" /\ r.device_token \in {Absent, Some("T2")}
        \/ r.code = 200 /\ r.status = "token_revoked" /\ r.device_token = Absent
        \/ r.code = 401
        \/ r.code = 0}

NextTwo ==
    \/ (\E resp \in SsidResponses :
            /\ management_send_heartbeat(resp, NoFaults)
            /\ hb' = HB("management", cfg["management"], cfg'["management"], resp))
            /\ UNCHANGED <<qvars, cvars, svars, pvars>>
    \/ (\E resp \in TwoTelemetryResponses :
            /\ telemetry_heartbeat(resp)
            /\ hb' = HB("telemetry", cfg["telemetry"], cfg'["telemetry"], resp))
            /\ UNCHANGED <<qvars, cvars, svars, wvars, pvars>>
    \/ (\E a \in Agents : restart(a))
            /\ hb' = NoHB /\ UNCHANGED <<qvars, cvars, svars, wvars, pvars>>

SpecTwo == InitCmd /\ [][NextTwo]_vars

(***************************************************************************)
(* SpecWipe: the telemetry agent alone on a provisioned device, with the    *)
(* two storage operations of wipe_device_data able to fail: the unlink of  *)
(* the configuration cache and the save of device.conf.  The agent is      *)
(* restarted at any moment; hb keeps the last heartbeat across a restart.  *)
(***************************************************************************)
RevokedResponse ==
    [code |-> 200, status |-> "token_revoked", device_token |-> Absent,
     wifi_ssid |-> Absent]

WipeResponses ==
    {r \in HeartbeatResponses :
        \/ r.code = 200 /\ r.status = "ok"
              /\ r.device_token \in {Absent, Some("T1"), Some("T2")}
        \/ r.code = 401
        \/ r.code = 0}

\* Config.wipe_device_data() and clear_event_config(): the Config object they
\* leave.  clear_event_config() catches the exception of unlink() and with
\* it skips its two assignments.
wipe_device_data_io(c, unlink_failed) ==
    IF unlink_failed THEN [c EXCEPT !.device_token = None, !.device_id = None]
    ELSE wipe_device_data(c)

\* TelemetryAgent.send_heartbeat answered 200 with status token_revoked.
\* save_device_config() raises when it fails, wipe_device_data() raises it
\* again and send_heartbeat catches it and returns None; device.conf is
\* replaced only by a save that succeeded.
telemetry_revoked_io(unlink_fails, save_fails) ==
    LET c0 == cfg["telemetry"]
        unlink_failed == unlink_fails /\ disk_cache # None
        c1 == wipe_device_data_io(c0, unlink_failed)
    IN /\ Truthy(c0.device_token)
       /\ cfg' = [cfg EXCEPT !["telemetry"] = c1]
       /\ disk_cache' = (IF unlink_failed THEN disk_cache ELSE None)
       /\ disk_conf' = (IF save_fails THEN disk_conf ELSE Some(DeviceConf(c1)))
       /\ fault' = (unlink_failed \/ save_fails)
       /\ hb' = HB("telemetry", c0, c1, RevokedResponse)

NextWipe ==
    \/ (\E resp \in WipeResponses :
            /\ telemetry_heartbeat(resp)
            /\ hb' = HB("telemetry", cfg["telemetry"], cfg'["telemetry"], resp))
            /\ fault' = FALSE
            /\ UNCHANGED <<qvars, cvars, svars, wvars, portal, save, loop>>
    \/ (\E unlink_fails, save_fails \in BOOLEAN :
            telemetry_revoked_io(unlink_fails, save_fails))
            /\ UNCHANGED <<qvars, cvars, svars, wvars, portal, save, loop>>
    \/ restart("telemetry")
            /\ UNCHANGED <<qvars, cvars, svars, hb, wvars, pvars>>

SpecWipe == InitCmd /\ [][NextWipe]_vars

(***************************************************************************)
(* SpecRetry: the loop of management_agent.main while the backend keeps    *)
(* asking for one network name.  Every iteration sends a heartbeat; it is  *)
(* answered 200 with the name or fails, and inside apply_ssid_configuration*)
(* the read, the open for writing and the service restart succeed or fail. *)
(* hostapd.conf is any file of SpecApply.  The loop never ends (while      *)
(* True, every exception caught), hence the weak fairness of its step; the *)
(* strong fairness says that a service restart that is attempted again and *)
(* again eventually succeeds.                                              *)
(***************************************************************************)
RetryName == "NetA"

RetryResponses ==
    {[code |-> 200, status |-> "ok", device_token |-> Absent,
      wifi_ssid |-> Some(RetryName)]}
    \cup {[code |-> c, status |-> "none", device_token |-> Absent, wifi_ssid |-> Absent] :
            c \in {500, 0}}

\* a write that fails does so at open(), before the file is touched
RetryEnvs == {e \in Envs : e.write # "OSError"}

\* main: one iteration of the heartbeat loop
main_iteration(resp, env) ==
    /\ management_send_heartbeat(resp, env)
    /\ hb' = HB("management", cfg["management"], cfg'["management"], resp)
    /\ UNCHANGED <<qvars, cvars, svars, pvars>>

NextRetry ==
    \/ \E resp \in RetryResponses, env \in RetryEnvs : main_iteration(resp, env)

\* an iteration in which systemctl restart hostapd ran and returned 0
RestartSucceeds ==
    /\ \E resp \in RetryResponses, env \in RetryEnvs : main_iteration(resp, env)
    /\ ap'.called /\ ap'.restarts = 1 /\ ap'.ret

SpecRetry ==
    InitApply /\ [][NextRetry]_vars /\ WF_vars(NextRetry) /\ SF_vars(RestartSucceeds)

(***************************************************************************)
(* SpecSync: the queue as the deployed processes use it.  The portal       *)
(* enqueues submissions, a collector enqueues analytics, an operator runs  *)
(* cleanup_old_records, and the telemetry agent's loop sends heartbeats    *)
(* and runs sync_queued_analytics.  A sync is several steps (the dequeue,  *)
(* each upload, each mark_synced or mark_failed) and the other processes   *)
(* act between them.  An upload is answered with an HTTP status, 0 when    *)
(* the request raised.                                                     *)
(***************************************************************************)
UploadStatuses == {200, 201, 500, 0}

\* an HTTP success status
HttpSuccess(status) == status \in 200..299

\* the entries of sync.calls: a request posted for the items of one type and
\* the status it was answered with, or a mark_synced or mark_failed call and
\* the ids it was given
Upload(t, status) == [op |-> "upload", item_type |-> t, status |-> status, ids |-> <<>>]

Mark(op, t, ids) == [op |-> op, item_type |-> t, status |-> 0, ids |-> ids]

\* (mutation) every answered or unanswered upload counts as accepted
UploadAccepted_Always(status) == TRUE

\* _send_analytics_batch, _send_submissions_batch: what they return
UploadAccepted(status) == status = 200

\* sync_queued_analytics: the ids of the batch's items of one type, in order
BatchIds(b, t) ==
    LET items == SelectSeq(b, LAMBDA it : it[2] = t)
    IN [i \in 1..Len(items) |-> items[i][1]]

\* the bound on retry_count: an upload may fail only while every row it would
\* mark can still count one more retry
CanRetry(ids) == \A r \in rows : r.id \in IdSet(ids) => r.retry_count < MaxRetry

AckedItems(ids, t) == {<<ids[i], t>> : i \in 1..Len(ids)}

\* sync_queued_analytics up to the split of the batch
sync_dequeue ==
    /\ sync.pc = "idle"
    /\ is_registered(cfg["telemetry"])
    /\ dequeue_batch(SyncBatchSize)
    /\ sync' = (IF last'.ret = <<>> THEN SyncIdle
                ELSE [pc |-> IF BatchIds(last'.ret, ANALYTICS_RECORD) # <<>>
                             THEN "send_analytics" ELSE "send_submissions",
                      batch |-> last'.ret, ok |-> FALSE, calls |-> <<>>])
    /\ UNCHANGED acked

\* _send_analytics_batch, _send_submissions_batch: _sign_request raises on an
\* empty device_token, and then nothing is posted
UploadSent == Truthy(cfg["telemetry"].device_token)

\* sync_queued_analytics: self._send_analytics_batch(analytics_data)
sync_send_analytics(status) ==
    LET ids == BatchIds(sync.batch, ANALYTICS_RECORD)
        ok == UploadSent /\ UploadAccepted(status)
    IN /\ sync.pc = "send_analytics"
       /\ ok \/ CanRetry(ids)
       /\ sync' = [sync EXCEPT !.pc = "mark_analytics", !.ok = ok,
                               !.calls = IF UploadSent
                                         THEN Append(@, Upload(ANALYTICS_RECORD, status))
                                         ELSE @]
       /\ acked' = (IF UploadSent /\ HttpSuccess(status)
                    THEN acked \cup AckedItems(ids, ANALYTICS_RECORD)
                    ELSE acked)
       /\ UNCHANGED qvars

\* sync_queued_analytics: mark_synced or mark_failed of the analytics ids
sync_mark_analytics ==
    LET ids == BatchIds(sync.batch, ANALYTICS_RECORD)
        op == IF sync.ok THEN "mark_synced" ELSE "mark_failed"
    IN /\ sync.pc = "mark_analytics"
       /\ IF sync.ok THEN mark_synced(ids) ELSE mark_failed(ids)
       /\ sync' = [sync EXCEPT !.pc = IF BatchIds(sync.batch, PORTAL_SUBMISSION) # <<>>
                                      THEN "send_submissions" ELSE "done",
                               !.ok = FALSE,
                               !.calls = Append(@, Mark(op, ANALYTICS_RECORD, ids))]
       /\ UNCHANGED acked

\* sync_queued_analytics: self._send_submissions_batch(submission_data)
sync_send_submissions(status) ==
    LET ids == BatchIds(sync.batch, PORTAL_SUBMISSION)
        ok == UploadSent /\ UploadAccepted(status)
    IN /\ sync.pc = "send_submissions"
       /\ ok \/ CanRetry(ids)
       /\ sync' = [sync EXCEPT !.pc = "mark_submissions", !.ok = ok,
                               !.calls = IF UploadSent
                                         THEN Append(@, Upload(PORTAL_SUBMISSION, status))
                                         ELSE @]
       /\ acked' = (IF UploadSent /\ HttpSuccess(status)
                    THEN acked \cup AckedItems(ids, PORTAL_SUBMISSION)
                    ELSE acked)
       /\ UNCHANGED qvars

\* sync_queued_analytics: mark_synced or mark_failed of the submission ids
sync_mark_submissions ==
    LET ids == BatchIds(sync.batch, PORTAL_SUBMISSION)
        op == IF sync.ok THEN "mark_synced" ELSE "mark_failed"
    IN /\ sync.pc = "mark_submissions"
       /\ IF sync.ok THEN mark_synced(ids) ELSE mark_failed(ids)
       /\ sync' = [sync EXCEPT !.pc = "done", !.ok = FALSE,
                               !.calls = Append(@, Mark(op, PORTAL_SUBMISSION, ids))]
       /\ UNCHANGED acked

\* sync_queued_analytics: return True
sync_return ==
    /\ sync.pc = "done"
    /\ sync' = SyncIdle
    /\ UNCHANGED <<qvars, acked>>

\* the heartbeat responses of SpecSync: a credential is issued, the credential
\* is refused, the request raised
SyncHeartbeatResponses ==
    {r \in HeartbeatResponses :
        \/ r.code = 200 /\ r.status = "ok" /\ r.device_token = Some("T1")
        \/ r.code = 401
        \/ r.code = 0}

NextSync ==
    \/ Tick /\ UNCHANGED <<cvars, svars, hvars>>
    \/ (\E p \in Payloads : enqueue_analytics(p)) /\ UNCHANGED <<cvars, svars, hvars>>
    \/ (\E p \in Payloads : enqueue_submission(p)) /\ UNCHANGED <<cvars, svars, hvars>>
    \/ (\E days \in 0..1 : cleanup_old_records(days)) /\ UNCHANGED <<cvars, svars, hvars>>
    \* the loop of main() sends the heartbeat between two runs of the sync
    \/ (sync.pc = "idle" /\ \E resp \in SyncHeartbeatResponses : telemetry_heartbeat(resp))
            /\ UNCHANGED <<qvars, cvars, svars, hb, wvars, pvars>>
    \/ sync_dequeue /\ UNCHANGED <<cvars, hvars>>
    \/ (\E st \in UploadStatuses : sync_send_analytics(st)) /\ UNCHANGED <<cvars, hvars>>
    \/ sync_mark_analytics /\ UNCHANGED <<cvars, hvars>>
    \/ (\E st \in UploadStatuses : sync_send_submissions(st)) /\ UNCHANGED <<cvars, hvars>>
    \/ sync_mark_submissions /\ UNCHANGED <<cvars, hvars>>
    \/ sync_return /\ UNCHANGED <<cvars, hvars>>

\* the telemetry agent starts on a provisioned device: get_config() has loaded
\* a device.conf that holds the serial and a credential
Provisioned ==
    [NewConfig EXCEPT !.device_serial = Some("CS-SHAKA-V1-001"),
                      !.device_token = Some("T1")]

InitSync ==
    /\ rows = {}
    /\ seq = 0
    /\ clock = 0
    /\ last = Call("none", "ok", None)
    /\ synced = {}
    /\ pc = [p \in Procs |-> "idle"]
    /\ cnt = [p \in Procs |-> 0]
    /\ sync = SyncIdle
    /\ acked = {}
    /\ disk_conf = Some(DeviceConf(Provisioned))
    /\ disk_cache = None
    /\ cfg = [a \in Agents |-> IF a = "telemetry" THEN Load(disk_conf, disk_cache)
                                ELSE NewConfig]
    /\ hb = NoHB
    /\ hostapd = ShippedFile
    /\ ap = NoApply
    /\ portal = NoPortal
    /\ fault = FALSE
    /\ save = NoSave
    /\ loop = NoLoop
    /\ cmdlog = <<>>

SpecSync == InitSync /\ [][NextSync]_vars

(***************************************************************************)
(* SpecLoop: the loop of telemetry_agent.main on a provisioned device.     *)
(* Each heartbeat may be answered with a credential (also the empty        *)
(* string), a revocation, a 401 or not at all, and between two heartbeats  *)
(* the loop runs sync_queued_analytics when is_registered() holds.  The    *)
(* portal and the collector enqueue meanwhile; the clock stands still.     *)
(***************************************************************************)
LoopHeartbeatResponses ==
    {r \in HeartbeatResponses :
        \/ r.code = 200 /\ r.status = "ok" /\ r.device_token \in {Some("T1"), Some("")}
        \/ r.code = 200 /\ r.status = "token_revoked" /\ r.device_token = Absent
        \/ r.code = 401
        \/ r.code = 0}

LoopUploadStatuses == {200, 0}

NextLoop ==
    \/ (\E p \in Payloads : enqueue_analytics(p)) /\ UNCHANGED <<cvars, svars, hvars>>
    \/ (\E p \in Payloads : enqueue_submission(p)) /\ UNCHANGED <<cvars, svars, hvars>>
    \/ (sync.pc = "idle" /\ \E resp \in LoopHeartbeatResponses : telemetry_heartbeat(resp))
            /\ UNCHANGED <<qvars, cvars, svars, hb, wvars, pvars>>
    \/ sync_dequeue /\ UNCHANGED <<cvars, hvars>>
    \/ (\E st \in LoopUploadStatuses : sync_send_analytics(st)) /\ UNCHANGED <<cvars, hvars>>
    \/ sync_mark_analytics /\ UNCHANGED <<cvars, hvars>>
    \/ (\E st \in LoopUploadStatuses : sync_send_submissions(st)) /\ UNCHANGED <<cvars, hvars>>
    \/ sync_mark_submissions /\ UNCHANGED <<cvars, hvars>>
    \/ sync_return /\ UNCHANGED <<cvars, hvars>>

SpecLoop == InitSync /\ [][NextLoop]_vars

(***************************************************************************)
(* SpecMain: the loop of telemetry_agent.main with its two counters.  One  *)
(* iteration is the heartbeat branch, the sync branch and time.sleep(1);   *)
(* the run of sync_queued_analytics is taken statement by statement, and   *)
(* the portal and the collector enqueue meanwhile.  sync_counter grows     *)
(* without bound while the device is not registered; it is counted up to   *)
(* MaxAge, which the test against analytics_sync_interval cannot tell from *)
(* any larger value.                                                       *)
(***************************************************************************)
mvars == <<cfg, disk_conf, disk_cache, hb, hostapd, ap, portal, fault, save, cmdlog>>

UpTo(n, max) == IF n < max THEN n + 1 ELSE max

\* (mutation) the branch is taken one sleep early
counter_reached_Early(counter, interval) == counter + 1 >= interval

\* main: heartbeat_counter >= config.heartbeat_interval,
\* sync_counter >= config.analytics_sync_interval
counter_reached(counter, interval) == counter >= interval

MainHeartbeatResponses ==
    {r \in HeartbeatResponses :
        \/ r.code = 200 /\ r.status = "ok" /\ r.device_token \in {Absent, Some("T1"), Some("")}
        \/ r.code = 200 /\ r.status = "token_revoked" /\ r.device_token = Absent
        \/ r.code = 401
        \/ r.code = 0}

MainUploadStatuses == {200, 201, 0}

\* main: the heartbeat branch is taken; heartbeat_counter = 0 ends it
main_heartbeat(resp) ==
    /\ loop.pc = "heartbeat"
    /\ counter_reached(loop.heartbeat_counter, heartbeat_interval)
    /\ telemetry_heartbeat(resp)
    /\ hb' = HB("telemetry", cfg["telemetry"], cfg'["telemetry"], resp)
    /\ loop' = [loop EXCEPT !.pc = "sync", !.heartbeat_counter = 0,
                            !.hb_age = 0, !.did = "heartbeat"]
    /\ UNCHANGED <<qvars, cvars, svars, wvars, portal, fault, save>>

\* main: the heartbeat branch is not taken
main_no_heartbeat ==
    /\ loop.pc = "heartbeat"
    /\ ~counter_reached(loop.heartbeat_counter, heartbeat_interval)
    /\ loop' = [loop EXCEPT !.pc = "sync", !.did = "none"]
    /\ UNCHANGED <<qvars, cvars, svars, mvars>>

\* main: the sync branch is taken; a run that finds the queue empty returns
\* at once, and sync_counter = 0 follows the return
main_sync ==
    /\ loop.pc = "sync"
    /\ is_registered(cfg["telemetry"])
    /\ counter_reached(loop.sync_counter, analytics_sync_interval)
    /\ sync_dequeue
    /\ loop' = [loop EXCEPT !.pc = IF sync' = SyncIdle THEN "sleep" ELSE "syncing",
                            !.sync_counter = IF sync' = SyncIdle THEN 0 ELSE @,
                            !.sync_age = 0, !.did = "sync"]
    /\ UNCHANGED <<cvars, mvars>>

\* main: the sync branch is not taken
main_no_sync ==
    /\ loop.pc = "sync"
    /\ ~(/\ is_registered(cfg["telemetry"])
         /\ counter_reached(loop.sync_counter, analytics_sync_interval))
    /\ loop' = [loop EXCEPT !.pc = "sleep", !.did = "none"]
    /\ UNCHANGED <<qvars, cvars, svars, mvars>>

\* a statement of the run of sync_queued_analytics that main is waiting for
main_sync_step(step) ==
    /\ loop.pc = "syncing"
    /\ step
    /\ loop' = [loop EXCEPT !.did = "none"]
    /\ UNCHANGED <<cvars, mvars>>

\* main: sync_queued_analytics has returned; sync_counter = 0
main_sync_return ==
    /\ loop.pc = "syncing"
    /\ sync_return
    /\ loop' = [loop EXCEPT !.pc = "sleep", !.sync_counter = 0, !.did = "none"]
    /\ UNCHANGED <<cvars, mvars>>

\* main: time.sleep(1); heartbeat_counter += 1; sync_counter += 1
main_sleep ==
    /\ loop.pc = "sleep"
    /\ loop' = [pc |-> "heartbeat",
                heartbeat_counter |-> UpTo(loop.heartbeat_counter, MaxAge),
                sync_counter |-> UpTo(loop.sync_counter, MaxAge),
                hb_age |-> UpTo(loop.hb_age, MaxAge),
                sync_age |-> UpTo(loop.sync_age, MaxAge),
                did |-> "none"]
    /\ UNCHANGED <<qvars, cvars, svars, mvars>>

NextMain ==
    \/ (\E p \in Payloads : enqueue_analytics(p)) /\ UNCHANGED <<cvars, svars, hvars>>
    \/ (\E p \in Payloads : enqueue_submission(p)) /\ UNCHANGED <<cvars, svars, hvars>>
    \/ (\E resp \in MainHeartbeatResponses : main_heartbeat(resp))
    \/ main_no_heartbeat
    \/ main_sync
    \/ main_no_sync
    \/ (\E st \in MainUploadStatuses : main_sync_step(sync_send_analytics(st)))
    \/ main_sync_step(sync_mark_analytics)
    \/ (\E st \in MainUploadStatuses : main_sync_step(sync_send_submissions(st)))
    \/ main_sync_step(sync_mark_submissions)
    \/ main_sync_return
    \/ main_sleep

SpecMain == InitSync /\ [][NextMain]_vars

(***************************************************************************)
(* SpecProv: the loop of telemetry_agent.main on a device whose queue is   *)
(* empty, so that a sync run returns at once.  The loop never ends (while  *)
(* True, time.sleep(1)), hence the weak fairness of its steps.             *)
(***************************************************************************)
NextProv ==
    \/ (\E resp \in MainHeartbeatResponses : main_heartbeat(resp))
    \/ main_no_heartbeat
    \/ main_sync
    \/ main_no_sync
    \/ main_sleep

SpecProv == InitSync /\ [][NextProv]_vars /\ WF_vars(NextProv)

(***************************************************************************)
(* SpecDrain: the loop of telemetry_agent.main on a registered device      *)
(* whose queue holds up to three stored items, more than one batch, with   *)
(* any retry counts; nothing is enqueued any more.  Heartbeats are         *)
(* answered without a credential or not at all, uploads 200, 201 or not at *)
(* all.  retry_count is counted up to MaxRetry; no statement of the code   *)
(* reads it.  The loop never ends, hence the weak fairness of its steps.   *)
(***************************************************************************)
DrainQueues ==
    UNION {SUBSET {StoredRow(1, PORTAL_SUBMISSION, 0, k[1]),
                   StoredRow(2, ANALYTICS_RECORD, 1, k[2]),
                   StoredRow(3, ANALYTICS_RECORD, 2, k[3])} :
            k \in [1..3 -> 0..MaxRetry]}

InitDrain ==
    /\ rows \in DrainQueues
    /\ seq = 3
    /\ clock = MaxClock
    /\ last = Call("none", "ok", None)
    /\ synced = {}
    /\ pc = [p \in Procs |-> "idle"]
    /\ cnt = [p \in Procs |-> 0]
    /\ sync = SyncIdle
    /\ acked = {}
    /\ disk_conf = Some(DeviceConf(Provisioned))
    /\ disk_cache = None
    /\ cfg = [a \in Agents |-> IF a = "telemetry" THEN Load(disk_conf, disk_cache)
                                ELSE NewConfig]
    /\ hb = NoHB
    /\ hostapd = ShippedFile
    /\ ap = NoApply
    /\ portal = NoPortal
    /\ fault = FALSE
    /\ save = NoSave
    /\ loop = NoLoop
    /\ cmdlog = <<>>

DrainHeartbeatResponses ==
    {r \in HeartbeatResponses :
        \/ r.code = 200 /\ r.status = "ok" /\ r.device_token = Absent
        \/ r.code = 0}

\* mark_failed, retry_count counted up to MaxRetry
mark_failed_counted(ids) ==
    /\ rows' = {IF r.id \in IdSet(ids)
                THEN [r EXCEPT !.retry_count = UpTo(@, MaxRetry),
                               !.last_retry_at = get_timestamp(clock)]
                ELSE r : r \in rows}
    /\ last' = Call("mark_failed", "ok", None)
    /\ UNCHANGED <<seq, clock, synced>>

\* sync_queued_analytics: _send_analytics_batch or _send_submissions_batch
drain_upload(t, status) ==
    LET ids == BatchIds(sync.batch, t)
        ok == UploadSent /\ UploadAccepted(status)
    IN /\ sync.pc = (IF t = ANALYTICS_RECORD THEN "send_analytics" ELSE "send_submissions")
       /\ sync' = [sync EXCEPT !.pc = IF t = ANALYTICS_RECORD THEN "mark_analytics"
                                      ELSE "mark_submissions",
                               !.ok = ok,
                               !.calls = IF UploadSent THEN Append(@, Upload(t, status))
                                         ELSE @]
       /\ acked' = (IF UploadSent /\ HttpSuccess(status)
                    THEN acked \cup AckedItems(ids, t) ELSE acked)
       /\ UNCHANGED qvars

\* sync_queued_analytics: mark_synced or mark_failed of the ids of one kind
drain_mark(t) ==
    LET ids == BatchIds(sync.batch, t)
        op == IF sync.ok THEN "mark_synced" ELSE "mark_failed"
    IN /\ sync.pc = (IF t = ANALYTICS_RECORD THEN "mark_analytics" ELSE "mark_submissions")
       /\ IF sync.ok THEN mark_synced(ids) ELSE mark_failed_counted(ids)
       /\ sync' = [sync EXCEPT !.pc = IF /\ t = ANALYTICS_RECORD
                                         /\ BatchIds(sync.batch, PORTAL_SUBMISSION) # <<>>
                                      THEN "send_submissions" ELSE "done",
                               !.ok = FALSE,
                               !.calls = Append(@, Mark(op, t, ids))]
       /\ UNCHANGED acked

NextDrain ==
    \/ (\E resp \in DrainHeartbeatResponses : main_heartbeat(resp))
    \/ main_no_heartbeat
    \/ main_sync
    \/ main_no_sync
    \/ (\E st \in MainUploadStatuses : main_sync_step(drain_upload(ANALYTICS_RECORD, st)))
    \/ main_sync_step(drain_mark(ANALYTICS_RECORD))
    \/ (\E st \in MainUploadStatuses : main_sync_step(drain_upload(PORTAL_SUBMISSION, st)))
    \/ main_sync_step(drain_mark(PORTAL_SUBMISSION))
    \/ main_sync_return
    \/ main_sleep

SpecDrain == InitDrain /\ [][NextDrain]_vars /\ WF_vars(NextDrain)

(***************************************************************************)
(* SpecSave: save_device_config statement by statement, run by the two     *)
(* agent processes, each of which may be killed at any statement.  Both    *)
(* use the path DEVICE_CONF.with_suffix('.tmp').  A file is a sequence of  *)
(* blocks; the text an agent dumps is named by its blocks, and the texts   *)
(* of the two agents differ in length, as their Config objects do when     *)
(* one holds a value where the other holds null.                           *)
(***************************************************************************)
\* json.dump(data, f, indent=2) of the agent's Config
Text(a) == IF a = "management" THEN <<<<a, 1>>, <<a, 2>>>> ELSE <<<<a, 1>>>>

\* write(2) at offset 0 of a file that holds 'old'
WriteAt0(old, new) ==
    IF Len(old) > Len(new) THEN new \o SubSeq(old, Len(new) + 1, Len(old)) ELSE new

Referenced(sv) == ({sv.conf, sv.tmp} \cup {sv.fd[a] : a \in Agents}) \ {0}

\* a file without a name and without an open descriptor is gone
Collect(sv) ==
    [sv EXCEPT !.data = [i \in Inodes |-> IF i \in Referenced(sv) THEN sv.data[i] ELSE <<>>]]

FreeInode(sv) == CHOOSE i \in Inodes : i \notin Referenced(sv) /\ \A k \in Inodes : k < i => k \in Referenced(sv)

\* open(temp_file, 'w'): O_CREAT | O_TRUNC
save_open(a) ==
    /\ save.pc[a] = "idle"
    /\ LET i == IF save.tmp = 0 THEN FreeInode(save) ELSE save.tmp
       IN save' = [save EXCEPT !.tmp = i, !.data[i] = <<>>, !.fd[a] = i, !.pc[a] = "opened"]

\* the end of the with block: the buffered text is written and the file closed
save_write(a) ==
    /\ save.pc[a] = "opened"
    /\ save' = Collect([save EXCEPT !.data[save.fd[a]] = WriteAt0(@, Text(a)),
                                   !.fd[a] = 0, !.pc[a] = "written"])

\* temp_file.replace(self.DEVICE_CONF): rename(2); FileNotFoundError when the
\* other process has renamed the file away, logged and re-raised
save_replace(a) ==
    /\ save.pc[a] = "written"
    /\ save' = (IF save.tmp = 0
                THEN [save EXCEPT !.pc[a] = "idle"]
                ELSE Collect([save EXCEPT !.conf = save.tmp, !.tmp = 0, !.pc[a] = "replaced"]))

\* os.chmod(self.DEVICE_CONF, 0o644) and the return
save_chmod(a) ==
    /\ save.pc[a] = "replaced"
    /\ save' = [save EXCEPT !.pc[a] = "idle"]

\* the process is killed inside save_device_config: its buffer and its
\* descriptor are lost, the files stay
save_crash(a) ==
    /\ save.pc[a] # "idle"
    /\ save' = Collect([save EXCEPT !.fd[a] = 0, !.pc[a] = "idle"])

NextSave ==
    \/ (\E a \in Agents : save_open(a)) /\ UNCHANGED <<qvars, cvars, svars, cfg, disk_conf, disk_cache, hb, wvars, portal, fault, loop>>
    \/ (\E a \in Agents : save_write(a)) /\ UNCHANGED <<qvars, cvars, svars, cfg, disk_conf, disk_cache, hb, wvars, portal, fault, loop>>
    \/ (\E a \in Agents : save_replace(a)) /\ UNCHANGED <<qvars, cvars, svars, cfg, disk_conf, disk_cache, hb, wvars, portal, fault, loop>>
    \/ (\E a \in Agents : save_chmod(a)) /\ UNCHANGED <<qvars, cvars, svars, cfg, disk_conf, disk_cache, hb, wvars, portal, fault, loop>>
    \/ (\E a \in Agents : save_crash(a)) /\ UNCHANGED <<qvars, cvars, svars, cfg, disk_conf, disk_cache, hb, wvars, portal, fault, loop>>

SpecSave == Init /\ [][NextSave]_vars

(***************************************************************************)
(* Claims about the queue API (Spec).                                      *)
(***************************************************************************)
Submissions(R) == RowsOfType(R, PORTAL_SUBMISSION)
Analytics(R) == RowsOfType(R, ANALYTICS_RECORD)
Ids(R) == {r.id : r \in R}
RowOfId(R, i) == CHOOSE r \in R : r.id = i
ListIds(b) == {b[i][1] : i \in 1..Len(b)}
Dequeued == last.op = "dequeue_batch"

\* C1: the list dequeue_batch returns never has an Analytics item before a
\* Submission item, and it holds an Analytics item only if every Submission
\* item in the queue is in the list.
C1_PriorityOrder ==
    Dequeued =>
        /\ \A i, j \in 1..Len(last.ret) :
              i < j => ~(last.ret[i][2] = ANALYTICS_RECORD /\ last.ret[j][2] = PORTAL_SUBMISSION)
        /\ (\E i \in 1..Len(last.ret) : last.ret[i][2] = ANALYTICS_RECORD)
              => Ids(Submissions(rows)) \subseteq ListIds(last.ret)

\* C1 witness: a returned list with a Submission ahead of an Analytics item
\* that was created before it.
C1_Witness ==
    /\ Dequeued
    /\ \E i, j \in 1..Len(last.ret) :
          /\ i < j
          /\ last.ret[i][2] = PORTAL_SUBMISSION
          /\ last.ret[j][2] = ANALYTICS_RECORD
          /\ last.ret[j][1] < last.ret[i][1]
          /\ StrLess(RowOfId(rows, last.ret[j][1]).created_at,
                     RowOfId(rows, last.ret[i][1]).created_at)

\* C2: enqueue_submission called with the Submission count at the capacity
\* raises the capacity error and leaves the table (and the id sequence) as
\* it was.
C2_Step ==
    last'.op = "enqueue_submission" =>
    \A p \in Payloads :
        (/\ get_submission_count(rows) >= MAX_SUBMISSIONS
         /\ enqueue_submission(p))
            => /\ last'.result = "ValueError"
               /\ rows' = rows
               /\ seq' = seq

C4_Step ==
    last'.op = "enqueue_analytics" =>
    \A p \in Payloads :
        (/\ get_analytics_count(rows) = MAX_ANALYTICS_RECORDS
         /\ enqueue_analytics(p))
            => /\ last'.result = "ok"
               /\ get_analytics_count(rows') = MAX_ANALYTICS_RECORDS
               /\ \E v \in Analytics(rows) :
                     /\ v \notin rows'
                     /\ \A o \in Analytics(rows) : ~StrLess(o.created_at, v.created_at)
                     /\ (Analytics(rows) \ {v}) \subseteq rows'
               /\ \E r \in Analytics(rows') :
                     /\ r.id \notin Ids(rows)
                     /\ r.data = json_dumps(p)
                     /\ r.retry_count = 0
               /\ Submissions(rows') = Submissions(rows)

C5_FifoWithinKind ==
    Dequeued =>
        \A i, j \in 1..Len(last.ret) :
            (i < j /\ last.ret[i][2] = last.ret[j][2]) => last.ret[i][1] < last.ret[j][1]

\* C5, narrowed to items whose created_at texts differ (not part of the
\* claim): the order by created_at text is not the order of the enqueues
\* either, because isoformat() writes no fraction for a microsecond of 0.
C5_FifoDistinctCreatedAt ==
    Dequeued =>
        \A i, j \in 1..Len(last.ret) :
            (/\ i < j
             /\ last.ret[i][2] = last.ret[j][2]
             /\ RowOfId(rows, last.ret[i][1]).created_at
                    # RowOfId(rows, last.ret[j][1]).created_at)
                => last.ret[i][1] < last.ret[j][1]

\* C6: an assigned id that was given to mark_synced is never in a later
\* dequeue_batch result, whatever was called in between; mark_synced deletes
\* the rows with the given ids and no other row, and a new row never takes an
\* id that was assigned before.
C6_Step ==
    /\ last'.op = "mark_synced" =>
       \A ids \in IdLists :
          mark_synced(ids) =>
              /\ last'.result = "ok"
              /\ \A r \in rows : r \in rows' <=> (\A k \in 1..Len(ids) : ids[k] # r.id)
              /\ rows' \subseteq rows
    /\ \A r \in rows' : r.id \notin Ids(rows) => r.id > seq
    /\ seq' >= seq

C6_Inv ==
    /\ Ids(rows) \cap synced = {}
    /\ Dequeued => ListIds(last.ret) \cap synced = {}
    /\ \A r \in rows : r.id <= seq

DequeueIdLists(R, n) == {[i \in 1..Len(b) |-> b[i][1]] : b \in DequeueResults(R, n)}

\* C7: mark_failed(ids) adds exactly 1 to retry_count of every queued row
\* whose id is in ids (also for an id listed twice) and sets its last_retry_at,
\* changes nothing else, and the lists dequeue_batch may return (of the whole
\* queue, so every shorter batch as well: a batch is a prefix) are the same
\* before and after.
C7_Step ==
    last'.op = "mark_failed" =>
    \A ids \in IdLists :
        (ids # <<>> /\ mark_failed(ids)) =>
            /\ last'.result = "ok"
            /\ Ids(rows') = Ids(rows)
            /\ Cardinality(rows') = Cardinality(rows)
            /\ \A r \in rows :
                  LET r2 == RowOfId(rows', r.id) IN
                  IF \E k \in 1..Len(ids) : ids[k] = r.id
                  THEN /\ r2.retry_count = r.retry_count + 1
                       /\ r2.last_retry_at # NULL
                       /\ r2.last_retry_at = get_timestamp(clock)
                       /\ [r2 EXCEPT !.retry_count = r.retry_count,
                                     !.last_retry_at = r.last_retry_at] = r
                  ELSE r2 = r
            /\ DequeueIdLists(rows', Cardinality(rows)) = DequeueIdLists(rows, Cardinality(rows))

C3_Step ==
    \A r \in Submissions(rows) :
        r.id \notin Ids(rows') =>
            \/ last'.op = "cleanup_old_records"
            \/ /\ sync.pc = "mark_submissions"
               /\ last'.op = "mark_synced"
               /\ r.id \in IdSet(BatchIds(sync.batch, PORTAL_SUBMISSION))
               /\ <<r.id, PORTAL_SUBMISSION>> \in acked

C3_SubmissionRemovedOnlyAfterSuccess == [][C3_Step]_vars

\* C3 happens: a sync has just removed a Submission whose upload was answered
\* with success.
C3_Witness ==
    /\ last.op = "mark_synced"
    /\ sync.pc = "idle"
    /\ \E a \in acked : a[2] = PORTAL_SUBMISSION /\ a[1] \notin Ids(rows)

(***************************************************************************)
(* Claims about concurrent enqueues (SpecConc).                            *)
(***************************************************************************)
\* C8 (as claimed): the number of queued Submission items is at most the
\* submission capacity in every reachable state.
C8_SubmissionsWithinCapacity == get_submission_count(rows) <= MAX_SUBMISSIONS

\* C9 (as claimed): the number of queued Analytics items is at most the
\* analytics capacity in every reachable state.
C9_AnalyticsWithinCapacity == get_analytics_count(rows) <= MAX_ANALYTICS_RECORDS

(***************************************************************************)
(* Claims about the heartbeat (SpecHB).                                    *)
(***************************************************************************)
Empty(x) == x = None \/ x = Some("")

Revoking(h) == h.code = 401 \/ (h.code = 200 /\ h.status = "token_revoked")

Wiped(c, serial) ==
    /\ Empty(c.device_token)
    /\ c.device_id = None
    /\ c.event_config = None
    /\ c.config_version = None
    /\ c.device_serial = serial

\* C10 (as claimed): when the heartbeat of an agent whose device is
\* Registered is answered with token_revoked or with HTTP 401, then on return
\* that agent's credential, deviceID and cached configuration are empty and
\* its serial is what it was.
C10_RevocationWipes ==
    (hb.agent \in Agents /\ hb.had_token /\ Revoking(hb))
        => Wiped(cfg[hb.agent], hb.serial)

\* C10, the token_revoked half alone (not the claim): a 200 response whose
\* status is token_revoked and whose device_token is not null does wipe the
\* identity.
C10_TokenRevokedWipes ==
    (/\ hb.agent \in Agents /\ hb.had_token
     /\ hb.code = 200 /\ hb.status = "token_revoked"
     /\ hb.device_token # None)
        => Wiped(cfg[hb.agent], hb.serial)

\* C10, narrowed to token_revoked responses of any body (not the claim): the
\* management agent reads a null device_token before the status and raises.
C10_TokenRevokedAnyBodyWipes ==
    (hb.agent \in Agents /\ hb.had_token /\ hb.code = 200 /\ hb.status = "token_revoked")
        => Wiped(cfg[hb.agent], hb.serial)

\* C10, the HTTP 401 half alone (not the claim).
C10_Http401Wipes ==
    (hb.agent \in Agents /\ hb.had_token /\ hb.code = 401)
        => Wiped(cfg[hb.agent], hb.serial)

\* a Registered agent's heartbeat was answered token_revoked and the wipe
\* reached device.conf
C10_TokenRevokedReached ==
    /\ hb.agent \in Agents /\ hb.had_token
    /\ hb.code = 200 /\ hb.status = "token_revoked"
    /\ disk_conf # None /\ disk_conf[1].device_token = None

(***************************************************************************)
(* Claims about the credential (SpecHB).                                   *)
(***************************************************************************)
NonEmptyCredential(c) == c.device_token # None /\ c.device_token # Some("")

\* C11 (as claimed): in every reachable state and for each agent's Config,
\* is_registered() is true if and only if the stored credential is a
\* non-empty string.
C11_RegisteredIffCredential ==
    \A a \in Agents : is_registered(cfg[a]) <=> NonEmptyCredential(cfg[a])

\* the heartbeat that has just returned was sent by an Unregistered device
\* and was answered with a non-empty credential
Provisioning ==
    /\ hb.agent \in Agents
    /\ ~NonEmptyCredential(hb.before)
    /\ hb.requests # <<>>
    /\ hb.device_token \in {Some(t) : t \in Tokens}

Provisioned_As(t) ==
    /\ cfg[hb.agent].device_token = t
    /\ NonEmptyCredential(cfg[hb.agent])
    /\ disk_conf # None
    /\ disk_conf[1].device_token = t

\* C12 (as claimed): when an Unregistered device sends a heartbeat and the
\* response carries a credential T, then after the heartbeat the device is
\* Registered, the credential in memory is T and the credential in the
\* persisted identity file is T.
C12_ProvisioningRegisters == Provisioning => Provisioned_As(hb.device_token)

\* C12 holds of every response that is not a revocation
C12_ProvisioningUnlessRevoked ==
    Provisioning /\ hb.status # "token_revoked" => Provisioned_As(hb.device_token)

C12_ProvisionedReached == Provisioning /\ Provisioned_As(hb.device_token)

(* Claims about the heartbeat request (SpecHB). *)
WithoutSignature(r) == SelectSeq(r, LAMBDA f : f[1] # "signature")

Value(r, k) == r[Field(r, k)][2]

Unsigned(r) == ~HasField(r, "signature") /\ ~HasField(r, "device_token")

SignedWith(r, t) ==
    /\ HasField(r, "signature")
    /\ HasField(r, "device_token")
    /\ Value(r, "device_token") = t
    /\ Value(r, "signature") = HMAC(t, canonical_json(WithoutSignature(r)))

\* C13: every heartbeat request sent while the device is Unregistered has
\* neither a signature field nor a credential field; every heartbeat request
\* sent while it is Registered has both, its credential field is the
\* credential stored when it was sent, and its signature is HMAC-SHA256, keyed
\* with that credential, of the canonical JSON of the body without the
\* signature field.
C13_RequestSignedIffRegistered ==
    hb.agent \in Agents =>
        \A i \in 1..Len(hb.requests) :
            IF NonEmptyCredential(hb.before)
            THEN SignedWith(hb.requests[i], hb.before.device_token[1])
            ELSE Unsigned(hb.requests[i])

C13_Witness ==
    /\ hb.agent = "telemetry"
    /\ NonEmptyCredential(hb.before)
    /\ Len(hb.requests) = 1
    /\ SignedWith(hb.requests[1], "T2")

C13_UnsignedReached ==
    /\ hb.agent = "management"
    /\ hb.before.device_token = Some("")
    /\ Len(hb.requests) = 1
    /\ Unsigned(hb.requests[1])

(* Claims about rotation (SpecHB). *)
\* the step is a heartbeat of agent a, Registered when it began, answered
\* with HTTP 200, no revocation and the non-empty credential t
RotationStep(a, t) ==
    /\ hb'.agent = a
    /\ hb'.before = cfg[a]
    /\ NonEmptyCredential(cfg[a])
    /\ hb'.code = 200
    /\ hb'.status # "token_revoked"
    /\ hb'.device_token = Some(t)

C14_Step ==
    \A a \in Agents, t \in Tokens :
        RotationStep(a, t) =>
            IF Some(t) # cfg[a].device_token
            THEN /\ cfg'[a].device_token = Some(t)
                 /\ NonEmptyCredential(cfg'[a])
                 /\ disk_conf' # None
                 /\ disk_conf'[1].device_token = Some(t)
            ELSE /\ cfg' = cfg
                 /\ disk_conf' = disk_conf
                 /\ disk_cache' = disk_cache

C14_SameCredentialReached ==
    /\ hb.agent = "management"
    /\ hb.before.device_token = Some("T1")
    /\ hb.code = 200
    /\ hb.status = "ok"
    /\ hb.device_token = Some("T1")
    /\ disk_conf # None
    /\ disk_conf[1].device_token = Some("T2")

\* the same for a response that carries the empty string as credential:
\* violated, the empty string is stored (see C11)
C14_EmptyCredentialKeepsRegistered ==
    \A a \in Agents :
        (/\ hb.agent = a
         /\ NonEmptyCredential(hb.before)
         /\ hb.code = 200
         /\ hb.status # "token_revoked"
         /\ hb.device_token = Some("")) => NonEmptyCredential(cfg[a])

(* Claims about configuration reconciliation (SpecSSID). *)
\* the step is a heartbeat of the management agent that called
\* apply_ssid_configuration, and the call ended in the given step
ApplyEndedIn(step) ==
    /\ hb'.agent = "management"
    /\ ap'.called
    /\ ap'.step = step

PersistedSsid(conf) == IF conf = None THEN None ELSE conf[1].wifi_ssid

\* appliedRadioName is the same after the step, in memory and in device.conf
RadioNameUnchanged ==
    /\ cfg'["management"].wifi_ssid = cfg["management"].wifi_ssid
    /\ PersistedSsid(disk_conf') = PersistedSsid(disk_conf)

C15_Step ==
    ApplyEndedIn("restart") =>
        /\ ~ap'.ret
        /\ hostapd' = hostapd
        /\ RadioNameUnchanged

SsidLines(file) == SelectSeq(file.lines, LAMBDA line : line[2] = "ssid")

C17_Step ==
    ApplyEndedIn("write") =>
        /\ ~ap'.ret
        /\ hostapd' = hostapd

C17_WriteFailureRestores == [][C17_Step]_vars

\* the same for a write that is refused before the file is opened: holds
C17_RefusedWriteStep ==
    (ApplyEndedIn("write") /\ ap'.reason = "permission_denied") =>
        /\ ~ap'.ret
        /\ hostapd' = hostapd

C17_RefusedWriteLeavesFile == [][C17_RefusedWriteStep]_vars

C18_Step ==
    (hb'.agent = "management" /\ ap'.called) =>
        /\ ~hostapd.exists => ap'.step = "read" /\ ap'.reason = "file_not_found"
        /\ (hostapd.exists /\ ap'.step = "read") => ap'.reason = "permission_denied"
        /\ (hostapd.exists /\ SsidLines(hostapd) = <<>> /\ ap'.step # "read") =>
                ap'.step = "find"
        /\ ap'.step = "find" =>
                SsidLines(hostapd) = <<>> /\ ap'.reason = "ssid_line_not_found"
        /\ ap'.step \in {"read", "find"} =>
                /\ ~ap'.ret
                /\ ap'.restarts = 0
                /\ hostapd' = hostapd
                /\ RadioNameUnchanged

\* C18: when hostapd.conf cannot be read (it is missing, or permission is
\* denied) or has no network-name line, apply_ssid_configuration returns
\* failure, reports the reason by its type (file_not_found, permission_denied,
\* ssid_line_not_found), does not touch the file, does not restart the
\* service, and appliedRadioName keeps its value.
C18_UnreadableOrNoSsidLine == [][C18_Step]_vars

C18_Witness ==
    /\ hb.agent = "management"
    /\ ap.called
    /\ ap.reason = "ssid_line_not_found"
    /\ hostapd.lines = <<<<"", "interface", "wlan0">>, <<"", "#ssid", "CrowdSurfer">>>>

C18_MissingReached ==
    hb.agent = "management" /\ ap.called /\ ap.reason = "file_not_found"

C18_UnreadableReached ==
    /\ hb.agent = "management"
    /\ ap.called
    /\ ap.step = "read"
    /\ ap.reason = "permission_denied"

(* Claims about a heartbeat that fails in transport (SpecSSID). *)
\* the step is a heartbeat of agent a whose request raised (timeout,
\* connection error): there is no response
TransportFailure(a) ==
    /\ hb'.agent = a
    /\ hb'.before = cfg[a]
    /\ hb'.requests # <<>>
    /\ hb'.code = 0

C19_Step ==
    \A a \in Agents :
        TransportFailure(a) =>
            /\ ~hb'.returns
            /\ Len(hb'.requests) = 1
            /\ cfg'[a].device_token = cfg[a].device_token
            /\ cfg'[a].device_id = cfg[a].device_id
            /\ cfg'[a].event_config = cfg[a].event_config
            /\ cfg'[a].config_version = cfg[a].config_version
            /\ cfg'[a].wifi_ssid = cfg[a].wifi_ssid
            /\ disk_conf' = disk_conf
            /\ disk_cache' = disk_cache
            /\ hostapd' = hostapd
            /\ rows' = rows

\* C19: when the HTTP call of a heartbeat fails in transport, send_heartbeat
\* returns None, exactly one request has been sent in the call, and the
\* credential, the device id, the cached configuration, appliedRadioName (in
\* memory and in the files) and the queue are what they were before the call.
C19_TransportFailureChangesNothing == [][C19_Step]_vars

C19_Witness ==
    /\ hb.agent = "management"
    /\ hb.code = 0
    /\ Len(hb.requests) = 1
    /\ ~hb.returns
    /\ cfg["management"].device_token = Some("T2")
    /\ cfg["management"].wifi_ssid = Some("NetA")
    /\ cfg["management"].event_config # None
    /\ rows # {}

C19_TelemetryReached ==
    /\ hb.agent = "telemetry"
    /\ hb.code = 0
    /\ Len(hb.requests) = 1
    /\ cfg["telemetry"].wifi_ssid = Some("NetB")

(* Claims about one run of the sync (SpecSync). *)
Kinds == {PORTAL_SUBMISSION, ANALYTICS_RECORD}

UploadsOf(calls, t) ==
    SelectSeq(calls, LAMBDA c : c.op = "upload" /\ c.item_type = t)

MarksOf(calls, t) ==
    SelectSeq(calls, LAMBDA c : c.op # "upload" /\ c.item_type = t)

\* the run made one upload for the items of type t and then gave exactly
\* their ids to mark_synced if Success holds of the answer's status, to
\* mark_failed if not, and made no other mark_* call for them
KindSettled(t, Success(_)) ==
    LET ids == BatchIds(sync.batch, t)
        uploads == UploadsOf(sync.calls, t)
        marks == MarksOf(sync.calls, t)
    IN ids # <<>> =>
        /\ Len(uploads) = 1
        /\ marks = <<Mark(IF Success(uploads[1].status) THEN "mark_synced"
                          ELSE "mark_failed", t, ids)>>

\* C20 (as claimed): when a run of sync_queued_analytics ends, for each kind
\* with an item in the dequeued batch exactly one upload was made; if it was
\* answered with an HTTP success status, exactly that kind's ids were given
\* to mark_synced, and on any other outcome (a status that is not 2xx, a
\* transport error) exactly those ids were given to mark_failed, whatever
\* became of the other kind's upload.
C20_OneUploadOneMark ==
    sync.pc = "done" => \A t \in Kinds : KindSettled(t, HttpSuccess)

\* C20 holds when success is read as the status 200
C20_OneUploadOneMark200 ==
    sync.pc = "done" => \A t \in Kinds : KindSettled(t, UploadAccepted)

\* a run that has uploaded both kinds, one accepted and one refused
C20_MixedRunReached ==
    /\ sync.pc = "done"
    /\ Len(UploadsOf(sync.calls, ANALYTICS_RECORD)) = 1
    /\ UploadsOf(sync.calls, ANALYTICS_RECORD)[1].status = 500
    /\ Len(UploadsOf(sync.calls, PORTAL_SUBMISSION)) = 1
    /\ UploadsOf(sync.calls, PORTAL_SUBMISSION)[1].status = 200

(* Claims about the sync of an Unregistered device (SpecLoop). *)
\* the step posts an upload or calls mark_synced or mark_failed
SyncActs == sync'.calls # sync.calls /\ sync'.calls # <<>>

C21_Step == SyncActs => NonEmptyCredential(cfg["telemetry"])

\* C21 (as claimed): while the device holds no non-empty credential the sync
\* posts no upload and calls neither mark_synced nor mark_failed, also in the
\* loop tick whose heartbeat has just revoked the credential.
C21_NoSyncWhileUnregistered == [][C21_Step]_vars

\* the same for a device whose credential is None: holds
C21_NoneStep == SyncActs => cfg["telemetry"].device_token # None

C21_NoSyncWithoutToken == [][C21_NoneStep]_vars

\* the credential has been revoked while items wait in the queue
C21_RevokedWithItemsReached ==
    /\ cfg["telemetry"].device_token = None
    /\ rows # {}
    /\ sync.pc = "idle"

(***************************************************************************)
(* Claims about storage failures (SpecFault).                              *)
(***************************************************************************)
\* a step is a handle_submission call: every other call leaves NoPortal
PortalReturns == portal'.called

EnqueueFailed == last'.op = "enqueue_submission" /\ last'.result \in {"ValueError", "sqlite3.Error"}

SubmissionInserted ==
    \E r \in rows' : /\ r.item_type = PORTAL_SUBMISSION
                     /\ r.id \notin {q.id : q \in rows}
                     /\ rows' = rows \cup {r}

C22_Step ==
    PortalReturns =>
        /\ (EnqueueFailed => ~portal'.success /\ ~portal'.grant_called)
        /\ (portal'.success => SubmissionInserted)

\* C22: when enqueue_submission ends with the capacity error or with a storage
\* error, handle_submission returns success = false and does not call
\* grant_wifi_access; whenever it returns success = true the queue holds one
\* more item, the new submission.
C22_FailedEnqueueIsSurfaced == [][C22_Step]_vars

\* handle_submission has returned after the INSERT of its submission failed
C22_Witness == portal.called /\ ~portal.success /\ last.result = "sqlite3.Error"

\* handle_submission has returned after the queue refused the submission
C22_CapacityReached == portal.called /\ ~portal.success /\ last.result = "ValueError"

\* handle_submission has returned success
C22_AcceptedReached == portal.called /\ portal.success /\ portal.grant_called

\* the call of this step met a storage error and did not do its work
StorageFailed ==
    /\ fault'
    /\ \/ last'.op \in {"mark_synced", "mark_failed", "dequeue_batch"}
       \/ last'.op \in {"enqueue_analytics", "enqueue_submission"} /\ rows' = rows

C23_Step == StorageFailed => last'.result # "ok"

\* C23 (as claimed): a call of enqueue_analytics, enqueue_submission,
\* mark_synced, mark_failed or dequeue_batch in which the store answered a
\* statement with an error does not end with a normal return: the caller gets
\* an error outcome, and so can tell a failed dequeue_batch from an empty queue.
C23_StorageFailureIsSurfaced == [][C23_Step]_vars

C23_InsertStep ==
    (fault' /\ rows' = rows /\ last'.op \in {"enqueue_analytics", "enqueue_submission"})
        => last'.result # "ok"

\* C23 (the part that holds): an enqueue whose store failed and that left the
\* queue as it was ends with an exception.
C23_FailedInsertRaises == [][C23_InsertStep]_vars

\* mark_synced has returned normally although its DELETE failed
C23_SilentMarkReached ==
    fault /\ last.op = "mark_synced" /\ last.result = "ok" /\ rows # {}

\* dequeue_batch has returned [] from a failed SELECT on a queue that holds items
C23_SilentDequeueReached ==
    fault /\ last.op = "dequeue_batch" /\ last.ret = <<>> /\ rows # {}

AnalyticsEnqueueFailed ==
    last'.op = "enqueue_analytics" /\ last'.result = "sqlite3.Error"

C24_Step == AnalyticsEnqueueFailed => rows' = rows

\* C24 (as claimed): an enqueue_analytics call that ends with a storage error
\* leaves the queue as it was before the call; at capacity the oldest analytics
\* record is not evicted unless the new record is inserted.
C24_FailedEnqueueWritesNothing == [][C24_Step]_vars

C24_BelowStep ==
    (AnalyticsEnqueueFailed /\ get_analytics_count(rows) < MAX_ANALYTICS_RECORDS)
        => rows' = rows

\* C24 (the part that holds): below capacity a failed enqueue_analytics leaves
\* the queue as it was.
C24_FailedEnqueueBelowCapacity == [][C24_BelowStep]_vars

C24_LossStep ==
    AnalyticsEnqueueFailed =>
        /\ rows' \subseteq rows
        /\ Cardinality(rows \ rows') <= 1
        /\ \A r \in rows \ rows' : r.item_type = ANALYTICS_RECORD

\* C24 (the extent of the loss): a failed enqueue_analytics removes at most one
\* item, an analytics record, and adds none.
C24_AtMostOneEvicted == [][C24_LossStep]_vars

\* enqueue_analytics has raised and the queue holds fewer analytics records
\* than the capacity it was at
C24_EvictedWithoutInsertReached ==
    /\ last.op = "enqueue_analytics" /\ last.result = "sqlite3.Error"
    /\ get_analytics_count(rows) = MAX_ANALYTICS_RECORDS - 1
    /\ seq >= MAX_ANALYTICS_RECORDS

(***************************************************************************)
(* Claims about cleanup_old_records (SpecCleanup).                         *)
(***************************************************************************)
\* the instant a created_at text names: what datetime.fromisoformat reads
\* from isoformat's text
InstantOf(text) ==
    LET month == text[1] - 48
        day == text[2] - 48
        sec == text[3] - 48
        micro == IF text[4] = 46 THEN text[5] - 48 ELSE 0
    IN ((month - 2) * DaysPerMonth + (day - 1)) * TicksPerDay
         + sec * TicksPerSecond + micro

\* the start of the current day minus 'days' days
CutoffInstant(c, days) == ((c \div TicksPerDay) - days) * TicksPerDay

AtOrAfterCutoff(R, c, days) == {r \in R : InstantOf(r.created_at) >= CutoffInstant(c, days)}

C25_Step ==
    \A days \in 0..MaxDays :
        cleanup_old_records(days) =>
            /\ rows' = AtOrAfterCutoff(rows, clock, days)
            /\ last'.ret = <<Cardinality(rows) - Cardinality(AtOrAfterCutoff(rows, clock, days))>>

\* C25 (as claimed): cleanup_old_records(days) deletes every item created
\* before the start of the current day minus 'days' days, of either kind and
\* whatever its retry_count, keeps every item created at or after that instant,
\* and returns the number of items it deleted, on every day of the month.
C25_CleanupDeletesBeforeCutoff == [][C25_Step]_vars

\* the first second of the cutoff day, its first instant excepted
InFirstSecond(r, c, days) ==
    /\ InstantOf(r.created_at) > CutoffInstant(c, days)
    /\ InstantOf(r.created_at) < CutoffInstant(c, days) + TicksPerSecond

C25_ValidStep ==
    \A days \in 0..MaxDays :
        (/\ cleanup_old_records(days)
         /\ CutoffValid(clock, days)
         /\ \A r \in rows : ~InFirstSecond(r, clock, days))
            => /\ rows' = AtOrAfterCutoff(rows, clock, days)
               /\ last'.ret = <<Cardinality(rows) - Cardinality(rows')>>

\* C25 (the part that holds): when the day of the month is greater than 'days'
\* and no item was created within the first second of the cutoff day, the call
\* deletes the items before the cutoff, keeps the others and returns the count.
C25_CleanupWithinTheMonth == [][C25_ValidStep]_vars

\* a call has deleted an item of each kind, one of them retried
C25_DeletedReached ==
    /\ last.op = "cleanup_old_records" /\ last.result = "ok" /\ last.ret = <<2>>

\* a call with days >= day of the month has returned 0 and has kept an item of
\* the month before
C25_KeptOldItemReached ==
    /\ last.op = "cleanup_old_records" /\ last.result = "ValueError"
    /\ \E r \in rows : InstantOf(r.created_at) < CutoffInstant(clock, MaxDays)

(***************************************************************************)
(* Claims about the serial (SpecHB).                                       *)
(***************************************************************************)
\* the serials the device reads at this moment: the one each agent process
\* holds once its get_serial_number has returned, and the persisted one
SerialsRead ==
    {cfg[a].device_serial : a \in {b \in Agents : cfg[b].device_serial # None}}
    \cup (IF disk_conf # None /\ disk_conf[1].device_serial # None
          THEN {disk_conf[1].device_serial} ELSE {})

\* C26 (as claimed): once get_serial_number has returned a serial s, every
\* later reading of the device serial yields s, whichever process reads it
\* and also when s came from the random fallback: the device never reads two
\* serials.
C26_OneSerial == Cardinality(SerialsRead) <= 1

C26_ProcessStep ==
    \A a \in Agents :
        (hb'.agent = a /\ cfg[a].device_serial # None)
            => cfg'[a].device_serial = cfg[a].device_serial

\* C26 (the part that holds): no heartbeat of a process, whatever its response
\* (rotation, revocation and the wipe it causes, denial, transport failure),
\* changes or clears the serial the process holds.
C26_HeartbeatKeepsSerial == [][C26_ProcessStep]_vars

C26_DiskStep ==
    (disk_conf # None /\ disk_conf[1].device_serial # None)
        => (disk_conf' # None /\ disk_conf'[1].device_serial = disk_conf[1].device_serial)

\* C26 (the persisted serial, as claimed): a serial that device.conf holds is
\* never replaced or cleared by a later save.
C26_PersistedSerialKept == [][C26_DiskStep]_vars

\* a revocation has wiped a process that holds the serial it held before
C26_WipedWithSerialReached ==
    /\ hb.agent \in Agents /\ hb.code = 200 /\ hb.status = "token_revoked"
    /\ hb.serial # None
    /\ cfg[hb.agent].device_serial = hb.serial
    /\ cfg[hb.agent].device_token = None

(***************************************************************************)
(* Claims about save_device_config (SpecSave).                             *)
(***************************************************************************)
\* device.conf exists and holds the whole text of one save
CompleteFile == \E a \in Agents : save.data[save.conf] = Text(a)

\* C27 (as claimed): at every moment device.conf, once it exists, holds the
\* complete text of a save, never a partial or a mixed one, also when a
\* process is killed inside save_device_config and when the two agent
\* processes save at the same time through the same temporary path.
C27_DeviceConfComplete == save.conf # 0 => CompleteFile

Alone(a) == \A b \in Agents \ {a} : save.pc[b] = "idle"

\* C27 (the part that holds): as long as only one process saves, killed at
\* any statement or not, device.conf holds a complete text whenever it exists.
C27_OneProcessComplete ==
    \A a \in Agents : ([]Alone(a)) => [](save.conf # 0 => CompleteFile)

\* device.conf exists and is empty
C27_EmptyReached == save.conf # 0 /\ save.data[save.conf] = <<>>

\* device.conf holds the text of one agent followed by the tail of the other's
C27_MixedReached ==
    /\ save.conf # 0
    /\ Len(save.data[save.conf]) = 2
    /\ save.data[save.conf][1][1] # save.data[save.conf][2][1]

\* a process was killed after it had renamed its file and device.conf is whole
C27_SavedReached ==
    /\ save.conf # 0 /\ CompleteFile /\ save.tmp # 0
    /\ \E a \in Agents : save.pc[a] = "opened"

(***************************************************************************)
(* Claims about dequeue_batch (Spec).                                      *)
(***************************************************************************)
C28_ReadStep ==
    \A n \in 1..MaxBatch :
        dequeue_batch(n) =>
            /\ rows' = rows
            /\ seq' = seq
            /\ Len(last'.ret) = Min(n, Cardinality(rows))

\* the step is a dequeue_batch(n) that follows a dequeue_batch of the same
\* reach, with no queue operation in between
RepeatedDequeue(n) ==
    /\ last.op = "dequeue_batch"
    /\ Len(last.ret) = Min(n, Cardinality(rows))
    /\ dequeue_batch(n)

C28_Step ==
    /\ C28_ReadStep
    /\ \A n \in 1..MaxBatch : RepeatedDequeue(n) => last'.ret = last.ret

C28_DequeueReadOnly == [][C28_ReadStep]_vars

\* no two queued items have the same priority and the same created_at
NoTies ==
    \A r, q \in rows :
        (r.priority = q.priority /\ r.created_at = q.created_at) => r = q

C28_DistinctStep ==
    \A n \in 1..MaxBatch : (RepeatedDequeue(n) /\ NoTies) => last'.ret = last.ret

\* C28 (repeatability, where the ORDER BY decides the order): when no two
\* items agree in priority and created_at, the second call returns the list
\* of the first.
C28_RepeatableWithoutTies == [][C28_DistinctStep]_vars

\* dequeue_batch has returned fewer items than the queue holds, all of it
\* there still
C28_BatchReached ==
    /\ last.op = "dequeue_batch"
    /\ Len(last.ret) = 1
    /\ Cardinality(rows) = 2
    /\ NoTies

(***************************************************************************)
(* Claims about the commands and the configuration of a heartbeat response *)
(* (SpecCmd).                                                              *)
(***************************************************************************)
\* the management heartbeat that has just returned handed its response back
HandledHeartbeat == hb.agent = "management" /\ hb.returns

KnownHandlers == {"config_refresh", "restart", "wipe"}

C29_RefusedReached ==
    /\ HandledHeartbeat
    /\ Len(cmdlog) = 2
    /\ cmdlog[1].command.command_type = "reboot" /\ cmdlog[1].status = "error"
    /\ cmdlog[2].command = Command("update_firmware", Some("http://fw"))
    /\ cmdlog[2].status = "error"

\* a revoked or refused heartbeat has dispatched none of its commands
C29_NotHandledReached ==
    /\ hb.agent = "management" /\ ~hb.returns
    /\ hb.commands # <<>> /\ cmdlog = <<>>

\* the response of the heartbeat of this step carries a network name that is
\* not the applied one
CarriesNewName ==
    /\ hb'.wifi_ssid # Absent
    /\ hb'.wifi_ssid # None
    /\ hb'.wifi_ssid # cfg["management"].wifi_ssid

C30_Step ==
    (hb'.agent = "management" /\ hb'.code = 200 /\ hb'.status # "token_revoked")
        => /\ ap'.called <=> CarriesNewName
           /\ ~CarriesNewName =>
                /\ hostapd' = hostapd
                /\ cfg'["management"].wifi_ssid = cfg["management"].wifi_ssid
                /\ hb'.returns
                /\ Len(cmdlog') = Len(hb'.commands)

C30_OnlyStep ==
    (hb'.agent = "management" /\ ap'.called) => (hb'.returns /\ CarriesNewName)

\* C30 (for every response, the revoked and the refused ones too): no
\* apply_ssid_configuration without a new name in a handled response.
C30_NoReconciliationOtherwise == [][C30_OnlyStep]_vars

C30_AbsentReached ==
    /\ HandledHeartbeat
    /\ hb.wifi_ssid = None
    /\ hb.before.wifi_ssid # None
    /\ ~ap.called
    /\ Len(cmdlog) = 1

\* a new name has been applied and the command of the response processed
C30_AppliedReached ==
    /\ HandledHeartbeat
    /\ ap.called /\ ap.ret
    /\ cfg["management"].wifi_ssid = hb.wifi_ssid
    /\ Len(cmdlog) = 1

(***************************************************************************)
(* Claims about the order of the uploads of one sync run (SpecLoop).       *)
(***************************************************************************)
\* in sync.calls every upload of kind 'later' comes after an upload of kind
\* 'first', when the batch holds items of kind 'first'
UploadedBefore(first, later) ==
    \A i \in 1..Len(sync.calls) :
        (/\ sync.calls[i].op = "upload"
         /\ sync.calls[i].item_type = later
         /\ BatchIds(sync.batch, first) # <<>>)
            => \E j \in 1..(i - 1) :
                  sync.calls[j].op = "upload" /\ sync.calls[j].item_type = first

\* C31 (as claimed): within one run of sync_queued_analytics whose batch holds
\* both kinds, the submissions are uploaded before the analytics records.
C31_SubmissionsUploadedFirst == UploadedBefore(PORTAL_SUBMISSION, ANALYTICS_RECORD)

\* C31 (what the code does): the analytics records are uploaded before the
\* submissions.
C31_AnalyticsUploadedFirst == UploadedBefore(ANALYTICS_RECORD, PORTAL_SUBMISSION)

\* a run has uploaded both kinds of a batch that holds both
C31_BothUploadedReached ==
    /\ sync.pc = "done"
    /\ Len(UploadsOf(sync.calls, ANALYTICS_RECORD)) = 1
    /\ Len(UploadsOf(sync.calls, PORTAL_SUBMISSION)) = 1

(***************************************************************************)
(* Claims about the counters of the telemetry agent's loop (SpecMain).     *)
(***************************************************************************)
\* the step is a heartbeat attempt of the loop, provisioning or signed
HeartbeatAttempt == loop.pc = "heartbeat" /\ loop'.did = "heartbeat"

\* the step begins a run of sync_queued_analytics
SyncRunBegins == loop.pc = "sync" /\ loop'.did = "sync"

C32_Step ==
    /\ HeartbeatAttempt =>
          /\ loop.heartbeat_counter >= heartbeat_interval
          /\ loop'.heartbeat_counter = 0
          /\ loop.hb_age >= heartbeat_interval
    /\ SyncRunBegins => loop.sync_age >= analytics_sync_interval

\* C32: a heartbeat is attempted only when heartbeat_counter has reached
\* heartbeat_interval, the counter is 0 after every attempt whatever the
\* answer, two consecutive attempts are at least heartbeat_interval sleeps
\* apart, and two consecutive sync runs at least analytics_sync_interval
\* sleeps apart.
C32_AttemptsAreIntervalsApart == [][C32_Step]_vars

\* a heartbeat that failed is followed, an interval later, by the state in
\* which the next attempt is due
C32_Witness ==
    /\ loop.pc = "heartbeat"
    /\ hb.agent = "telemetry" /\ hb.code = 0 /\ ~hb.returns
    /\ loop.hb_age = heartbeat_interval
    /\ counter_reached(loop.heartbeat_counter, heartbeat_interval)

\* a second sync run begins
C32_SecondSyncReached ==
    /\ loop.did = "sync"
    /\ synced # {}

(***************************************************************************)
(* Claims about a heartbeat answered with a revocation (SpecCmd).          *)
(***************************************************************************)
\* the management heartbeat that has just returned was answered 200 with
\* status token_revoked
RevokedHeartbeat ==
    hb.agent = "management" /\ hb.code = 200 /\ hb.status = "token_revoked"

\* the response carried a credential
CarriesCredential == hb.device_token # Absent /\ hb.device_token # None

FirstSsidLine(lines) ==
    CHOOSE i \in 1..Len(lines) :
        IsSsidLine(lines[i]) /\ \A j \in 1..(i - 1) : ~IsSsidLine(lines[j])

\* the call of this step wrote the file and returned True
WroteFile == ap'.called /\ ap'.ret

C34_Step ==
    WroteFile =>
        LET k == FirstSsidLine(hostapd.lines)
        IN /\ Len(hostapd'.lines) = Len(hostapd.lines)
           /\ hostapd'.lines[k] = <<"", "ssid", ap'.wifi_ssid>>
           /\ \A i \in 1..Len(hostapd.lines) :
                 i # k => hostapd'.lines[i] = hostapd.lines[i]

\* C34 (as claimed): the content apply_ssid_configuration writes differs from
\* what it read in the network-name line only, which becomes
\* ssid=<requested>; every other line, a further ssid= line included, is
\* written back unchanged and in place.
C34_OnlyOneLineReplaced == [][C34_Step]_vars

C34_EveryStep ==
    WroteFile =>
        /\ Len(hostapd'.lines) = Len(hostapd.lines)
        /\ \A i \in 1..Len(hostapd.lines) :
              hostapd'.lines[i] = IF hostapd.lines[i][2] = "ssid"
                                  THEN <<"", "ssid", ap'.wifi_ssid>>
                                  ELSE hostapd.lines[i]

\* C34 (what the code does): every line whose text begins with ssid= becomes
\* ssid=<requested>; the lines that do not are written back unchanged and in
\* place.
C34_EverySsidLineReplaced == [][C34_EveryStep]_vars

\* a file with two network-name lines has been rewritten
C34_TwoLinesReplacedReached ==
    /\ ap.called /\ ap.ret
    /\ Len(hostapd.lines) = 3
    /\ hostapd.lines[1] = <<"", "ssid", ap.wifi_ssid>>
    /\ hostapd.lines[2] = <<"", "interface", "wlan0">>
    /\ hostapd.lines[3] = <<"", "ssid", ap.wifi_ssid>>

(***************************************************************************)
(* Claims about the two processes saving device.conf (SpecTwo).            *)
(***************************************************************************)
\* the fields of device.conf that a wipe, a rotation and a commit change
IdentityFields == {"device_token", "device_id", "wifi_ssid"}

\* the heartbeat of agent a, in this step, changed field f of device.conf
\* without having changed it in its own Config object: it wrote the value it
\* has held since it loaded the file over what the other process saved
StaleOverwrite(a, f) ==
    /\ hb'.agent = a
    /\ disk_conf # None /\ disk_conf' # None
    /\ disk_conf'[1][f] # disk_conf[1][f]
    /\ cfg'[a][f] = cfg[a][f]

C35_Step == \A a \in Agents, f \in IdentityFields : ~StaleOverwrite(a, f)

\* C35: what one agent process has persisted in device.conf (a wiped
\* credential, a rotated credential, a committed wifi_ssid) is never undone
\* by a later save_device_config of the other process writing its own copy.
C35_NoStaleOverwrite == [][C35_Step]_vars

\* the telemetry agent gave the credential up and saved that; the management
\* agent's save has put the credential back into device.conf
C35_CredentialBackReached ==
    /\ hb.agent = "management"
    /\ cfg["telemetry"].device_token = None
    /\ disk_conf # None
    /\ disk_conf[1].device_token = Some("T1")

\* the management agent committed a network name; the telemetry agent's save
\* has removed it from device.conf
C35_NameUndoneReached ==
    /\ hb.agent = "telemetry"
    /\ cfg["management"].wifi_ssid # None
    /\ disk_conf # None
    /\ disk_conf[1].wifi_ssid = None

(***************************************************************************)
(* Claims about a revocation and the restart that follows it (SpecWipe).   *)
(***************************************************************************)
\* the telemetry agent's last heartbeat was signed and answered with a
\* revocation; hb.token is the credential that was revoked
RevocationHandled ==
    /\ hb.agent = "telemetry"
    /\ hb.code = 200 /\ hb.status = "token_revoked"
    /\ Truthy(hb.token)

\* the Config object c holds the revoked credential or the configuration
\* that was cached when the revocation arrived
HoldsRevoked(c) ==
    \/ c.device_token = hb.token
    \/ c.event_config # None /\ c.event_config = hb.before.event_config

\* C36 (as claimed): once a heartbeat has handled a revocation and returned,
\* a process that loads the files is not Registered with the revoked
\* credential or with the old cached configuration, also when the unlink of
\* the cache or the save of device.conf failed.
C36_RevocationDurable ==
    RevocationHandled =>
        LET c == Load(disk_conf, disk_cache)
        IN ~(is_registered(c) /\ HoldsRevoked(c))

\* C36 (without failures): when both storage operations of the wipe succeeded,
\* neither the running process nor a process that loads the files holds the
\* revoked credential or the old cached configuration, Registered or not.
C36_DurableWhenStored ==
    (RevocationHandled /\ ~fault) =>
        /\ ~HoldsRevoked(cfg["telemetry"])
        /\ ~HoldsRevoked(Load(disk_conf, disk_cache))

\* the wipe could not be saved and the restarted agent is Registered with the
\* revoked credential
C36_RegisteredAgainReached ==
    /\ RevocationHandled
    /\ fault
    /\ is_registered(cfg["telemetry"])
    /\ cfg["telemetry"].device_token = hb.token

\* the cache could not be removed and the restarted agent holds the old
\* configuration without a credential
C36_OldConfigurationReached ==
    /\ RevocationHandled
    /\ fault
    /\ cfg["telemetry"].device_token = None
    /\ cfg["telemetry"].event_config # None
    /\ disk_conf # None /\ disk_conf[1].device_token = None

\* a wipe that was stored, and the agent restarted after it
C36_StoredReached ==
    /\ RevocationHandled
    /\ ~fault
    /\ hb.before.event_config # None
    /\ cfg["telemetry"] = Load(disk_conf, disk_cache)
    /\ ~is_registered(cfg["telemetry"])

(***************************************************************************)
(* Claims about the retry of a failed reconciliation (SpecRetry).          *)
(***************************************************************************)
\* the applied name is not the one the backend asks for
NeedsName == cfg["management"].wifi_ssid # Some(RetryName)

HasSsidLine == \E i \in 1..Len(hostapd.lines) : IsSsidLine(hostapd.lines[i])

\* wifi_ssid is the requested name and hostapd.conf carries it
NameApplied ==
    /\ cfg["management"].wifi_ssid = Some(RetryName)
    /\ \E i \in 1..Len(hostapd.lines) : hostapd.lines[i] = <<"", "ssid", RetryName>>

C37_EveryHeartbeatRetries ==
    (/\ hb.agent = "management"
     /\ hb.returns
     /\ hb.wifi_ssid # Absent /\ hb.wifi_ssid # None
     /\ hb.wifi_ssid # hb.before.wifi_ssid)
        => /\ ap.called
           /\ Some(ap.wifi_ssid) = hb.wifi_ssid
           /\ ap.ret => cfg["management"].wifi_ssid = hb.wifi_ssid

\* the service restart failed, the file was restored and the name is still
\* to be applied
C37_FailedReached ==
    /\ ap.called /\ ap.restarts = 1 /\ ~ap.ret
    /\ NeedsName
    /\ HasSsidLine
    /\ \A i \in 1..Len(hostapd.lines) : hostapd.lines[i][3] # RetryName

ProvisioningSent ==
    /\ loop.did = "heartbeat"
    /\ hb.agent = "telemetry"
    /\ Len(hb.requests) = 1
    /\ HasField(hb.requests[1], "serial_number")
    /\ ~HasField(hb.requests[1], "device_token")
    /\ ~HasField(hb.requests[1], "signature")

\* C38 (as claimed): whenever the device holds no usable credential, none or
\* the empty string, the loop eventually sends a provisioning heartbeat.
C38_ProvisioningEventuallySent ==
    (~Truthy(cfg["telemetry"].device_token)) ~> ProvisioningSent

\* C38 (credential absent): whenever device_token is None the loop eventually
\* sends a provisioning heartbeat.
C38_AbsentCredentialProvisions ==
    (cfg["telemetry"].device_token = None) ~> ProvisioningSent

\* C38 (the answer): a provisioning heartbeat that was answered with a
\* credential leaves the device Registered with that credential and with the
\* serial it held.
C38_IssuedCredentialRegisters ==
    (ProvisioningSent /\ hb.returns) =>
        /\ is_registered(cfg["telemetry"])
        /\ cfg["telemetry"].device_token = hb.device_token
        /\ Truthy(cfg["telemetry"].device_token)
        /\ cfg["telemetry"].device_serial = hb.serial
        /\ disk_conf = Some(DeviceConf(cfg["telemetry"]))

\* a heartbeat attempt of a device that holds the empty credential: nothing
\* was sent
C38_EmptyCredentialSilentReached ==
    /\ loop.did = "heartbeat"
    /\ hb.agent = "telemetry"
    /\ hb.token = Some("")
    /\ hb.requests = <<>>
    /\ cfg["telemetry"].device_token = Some("")

\* registered again after a revocation
C38_RegisteredAgainReached ==
    /\ ProvisioningSent /\ hb.returns
    /\ hb.before.device_id = None
    /\ is_registered(cfg["telemetry"])

(***************************************************************************)
(* Claims about the sync runs emptying the queue (SpecDrain).              *)
(***************************************************************************)
\* the step is an upload of the run
UploadStep ==
    /\ Len(sync'.calls) = Len(sync.calls) + 1
    /\ sync'.calls[Len(sync'.calls)].op = "upload"

\* the step is an upload that was not answered with an HTTP success status
FailedUpload == UploadStep /\ ~HttpSuccess(sync'.calls[Len(sync'.calls)].status)

\* the step is an upload that was not answered 200
RefusedUpload == UploadStep /\ sync'.calls[Len(sync'.calls)].status # 200

\* C39 (as claimed): if from some point on every upload is answered with an
\* HTTP success status, the sync runs eventually empty the queue (nothing is
\* enqueued, the device stays Registered and storage does not fail in
\* SpecDrain).
C39_QueueEventuallyEmpty == (<>[][~FailedUpload]_vars) => <>(rows = {})

\* C39 (what the code does): if from some point on every upload is answered
\* 200, the sync runs eventually empty the queue, whatever the retry counts
\* and also when the queue holds more than one batch.
C39_EmptyWhenAnswered200 == (<>[][~RefusedUpload]_vars) => <>(rows = {})

\* a run was answered 201 and has marked its items failed
C39_SuccessMarkedFailedReached ==
    /\ sync.pc = "done"
    /\ \E i \in 1..Len(sync.calls) :
          sync.calls[i].op = "upload" /\ sync.calls[i].status = 201
    /\ \E i \in 1..Len(sync.calls) : sync.calls[i].op = "mark_failed"
    /\ \A i \in 1..Len(sync.calls) : sync.calls[i].op # "mark_synced"

\* a queue of three items, two of them at the retry bound, has been emptied
\* by a second run
C39_EmptiedReached ==
    /\ rows = {}
    /\ synced = {1, 2, 3}
    /\ loop.pc = "sleep"
====
